---- MODULE Spec2Model ----
(***************************************************************************)
(* Model of the davichat-api membership core: the DynamoDB tables          *)
(* (conversations, conversation_participants, messages), the               *)
(* DynamoDBService methods that read and write them, and the REST and      *)
(* WebSocket handlers that compose those methods.  Every await of the      *)
(* TypeScript code is one step of a request, so requests interleave        *)
(* exactly at the store-access boundaries.                                 *)
(***************************************************************************)
EXTENDS Integers, Sequences, FiniteSets, TLC

VARIABLES conversations, participants, messages, nextConv, nextMsg,
          everRow, sessions, online, clock, req, files, avatars

vars == <<conversations, participants, messages, nextConv, nextMsg,
          everRow, sessions, online, clock, req, files, avatars>>

(***************************************************************************)
(* Bounds of the model                                                     *)
(***************************************************************************)
\* number of conversation ids uuidv4() hands out
MaxConvs == 2
\* number of message ids uuidv4() hands out
MaxMsgs == 1
\* cap on a membership row's unreadCount
MaxUnread == 1
\* number of groups create_group creates
MaxGroups == 1
\* the last instant of the clock
MaxTime == 2
\* number of file names uuidv4() hands out to stored files
MaxFiles == 1
\* the longest content of an original message a reply quotes
MaxText == 250
\* number of avatar file names uuidv4() hands out
MaxAvatars == 2

\* user ids in ascending key order (a Query returns rows sorted by the
\* range key userId)
UserOrder == <<"A", "B", "C">>
Users == {UserOrder[i] : i \in 1..Len(UserOrder)}
Rank(u) == CHOOSE i \in 1..Len(UserOrder) : UserOrder[i] = u
\* the user ids of a set, in the order a Query returns them
RECURSIVE SortedSeq(_)
SortedSeq(S) ==
  IF S = {} THEN <<>>
  ELSE LET m == CHOOSE x \in S : \A y \in S : Rank(x) <= Rank(y)
       IN <<m>> \o SortedSeq(S \ {m})

\* the users and conversation ids used when the service methods are
\* called directly: ids of conversations no handler creates
SvcUsers == {"A", "B"}
ConvIds == 1..MaxConvs
SvcConvs == {MaxConvs + 1, MaxConvs + 2}
AllConvIds == ConvIds \cup SvcConvs
\* the keys whose history everRow records
SvcKeys == SvcConvs \X SvcUsers
\* the concurrent requests (one socket event or HTTP request each)
Procs == {"p1", "p2"}
\* the sockets that can connect
Sessions == {"s1", "s2"}
\* a client whose socket has disconnected since it sent its event
Gone == "gone"

(***************************************************************************)
(* DynamoDB item operations on conversation_participants.  A table is a    *)
(* set of items; the key is (conversationId, userId).                      *)
(***************************************************************************)
SameKey(r, c, u) == r.conversationId = c /\ r.userId = u

\* GetCommand: the items with the key (none or one)
GetParticipant(tbl, c, u) == {r \in tbl : SameKey(r, c, u)}

\* the item addParticipant writes; every caller passes
\* {unreadCount: 0, lastReadAt: now, isActive: true}, now being the time of
\* the call
NewParticipant(c, u, at) ==
  [conversationId |-> c, userId |-> u, unreadCount |-> 0, isActive |-> "true",
   lastReadAt |-> at]

\* PutCommand: replaces the item with the same key
AddParticipantPut(tbl, c, u, at) ==
  {r \in tbl : ~SameKey(r, c, u)} \cup {NewParticipant(c, u, at)}

\* UpdateCommand SET unreadCount, lastReadAt, isActive, updatedAt: edits the
\* item in place, or creates it when it is absent
AddParticipantUpdate_NoFlag(tbl, c, u, at) ==
  IF GetParticipant(tbl, c, u) = {}
  THEN tbl \cup {[conversationId |-> c, userId |-> u, unreadCount |-> 0,
                  isActive |-> "undefined", lastReadAt |-> at]}
  ELSE {IF SameKey(r, c, u)
        THEN [r EXCEPT !.unreadCount = 0, !.lastReadAt = at]
        ELSE r : r \in tbl}

AddParticipantUpdate(tbl, c, u, at) ==
  IF GetParticipant(tbl, c, u) = {}
  THEN tbl \cup {NewParticipant(c, u, at)}
  ELSE {IF SameKey(r, c, u)
        THEN [r EXCEPT !.unreadCount = 0, !.isActive = "true",
                       !.lastReadAt = at]
        ELSE r : r \in tbl}

\* removeParticipant's existence check (getParticipant, then throw)
RemoveParticipantExists_Always(tbl, c, u) == TRUE

RemoveParticipantExists(tbl, c, u) == GetParticipant(tbl, c, u) # {}

\* removeParticipant's write: DeleteCommand on the key
RemoveParticipantDelete_Soft(tbl, c, u) ==
  {IF SameKey(r, c, u) THEN [r EXCEPT !.isActive = "false"] ELSE r : r \in tbl}

RemoveParticipantDelete(tbl, c, u) == {r \in tbl : ~SameKey(r, c, u)}

UpdateParticipantReadStatus_KeepTime(tbl, c, u, n, at) ==
  IF GetParticipant(tbl, c, u) = {}
  THEN tbl \cup {[conversationId |-> c, userId |-> u, unreadCount |-> n,
                  isActive |-> "undefined", lastReadAt |-> at]}
  ELSE {IF SameKey(r, c, u) THEN [r EXCEPT !.unreadCount = n] ELSE r : r \in tbl}

\* updateParticipantReadStatus: UpdateCommand SET unreadCount, lastReadAt.
\* An UpdateCommand on a key that has no item creates the item, here
\* without an isActive attribute.
UpdateParticipantReadStatus(tbl, c, u, n, at) ==
  IF GetParticipant(tbl, c, u) = {}
  THEN tbl \cup {[conversationId |-> c, userId |-> u, unreadCount |-> n,
                  isActive |-> "undefined", lastReadAt |-> at]}
  ELSE {IF SameKey(r, c, u)
        THEN [r EXCEPT !.unreadCount = n, !.lastReadAt = at]
        ELSE r : r \in tbl}

\* getConversationParticipants: Query on the hash key, no filter
GetConversationParticipants(tbl, c) == {r \in tbl : r.conversationId = c}

ParticipantIds(tbl, c) == {r.userId : r \in GetConversationParticipants(tbl, c)}

(***************************************************************************)
(* The conversations table and findPrivateConversation                     *)
(***************************************************************************)
\* what getConversation returns when there is no item
NoConv == [id |-> 0, type |-> "none", createdBy |-> "none"]

\* GetCommand on conversations: the items with the id (none or one)
GetConversation(ctbl, id) == {cv \in ctbl : cv.id = id}

\* createConversation: PutCommand, replaces the item with the same id
CreateConversationPut(ctbl, cv) == {x \in ctbl : x.id # cv.id} \cup {cv}

\* getUserConversations: the rows of the user (userId-index), and for each
\* the conversation, when getConversation finds it
GetUserConversations(ptbl, ctbl, u) ==
  {cv \in ctbl : \E r \in ptbl : r.userId = u /\ r.conversationId = cv.id}

\* conversation.type === 'private'
IsPrivate_Direct(cv) == cv.type = "direct"

IsPrivate(cv) == cv.type = "private"

\* participantIds.includes(userId2) && participantIds.length === 2
PrivateMatch(ptbl, cv, u2) ==
  /\ u2 \in ParticipantIds(ptbl, cv.id)
  /\ Cardinality(GetConversationParticipants(ptbl, cv.id)) = 2

\* findPrivateConversation: the first private conversation of userId1 that
\* matches, null (NoConv) when there is none.  The rows of the index are
\* taken in ascending conversationId.
FindPrivateConversation_Owned(ptbl, ctbl, u1, u2) ==
  LET m == {cv \in GetUserConversations(ptbl, ctbl, u1) :
              IsPrivate(cv) /\ cv.createdBy = u1 /\ PrivateMatch(ptbl, cv, u2)}
  IN IF m = {} THEN NoConv
     ELSE CHOOSE cv \in m : \A x \in m : cv.id <= x.id

FindPrivateConversation(ptbl, ctbl, u1, u2) ==
  LET m == {cv \in GetUserConversations(ptbl, ctbl, u1) :
              IsPrivate(cv) /\ PrivateMatch(ptbl, cv, u2)}
  IN IF m = {} THEN NoConv
     ELSE CHOOSE cv \in m : \A x \in m : cv.id <= x.id

\* updateConversationCreatedBy(conversationId, newOwner): rewrites createdBy
\* of the conversation row
UpdateConversationCreatedBy(ctbl, id, u) ==
  {IF cv.id = id THEN [cv EXCEPT !.createdBy = u] ELSE cv : cv \in ctbl}

\* deleteConversation: DeleteCommand on the id
DeleteConversation_Keep(ctbl, id) == ctbl

DeleteConversation(ctbl, id) == {cv \in ctbl : cv.id # id}

\* getConversationMessages: Scan of messages filtered on conversationId
GetConversationMessages(mtbl, c) == {m \in mtbl : m.conversationId = c}

\* createMessage: PutCommand, key (id, conversationId)
CreateMessage(mtbl, m) ==
  {x \in mtbl : ~(x.id = m.id /\ x.conversationId = m.conversationId)} \cup {m}

\* a message item as handleSendMessage, uploadFile and handleSendReply build
\* it (messageData); createMessage overwrites timestamp with new Date()
Message(id, c, u, type, content, at) ==
  [id |-> id, conversationId |-> c, senderId |-> u, messageType |-> type,
   content |-> content, isEdited |-> FALSE, timestamp |-> at]

NoMessage == Message(0, 0, "none", "none", <<>>, 0)

\* getMessage: Scan of messages filtered on id, Items[0] or null
GetMessage(mtbl, id) == {m \in mtbl : m.id = id}

\* updateMessage: UpdateCommand SET content = :content, isEdited = true on
\* the key (id, conversationId) the Scan found; an UpdateCommand on a key
\* with no item puts an item holding the key and the SET attributes only
UpdateMessage_KeepContent(mtbl, id, c, newContent) ==
  {IF m.id = id /\ m.conversationId = c THEN [m EXCEPT !.isEdited = TRUE]
   ELSE m : m \in mtbl}

UpdateMessage(mtbl, id, c, newContent) ==
  IF \E m \in mtbl : m.id = id /\ m.conversationId = c
  THEN {IF m.id = id /\ m.conversationId = c
        THEN [m EXCEPT !.content = newContent, !.isEdited = TRUE]
        ELSE m : m \in mtbl}
  ELSE mtbl \cup {[NoMessage EXCEPT !.id = id, !.conversationId = c,
                                   !.content = newContent, !.isEdited = TRUE]}

\* deleteMessage: Scan for the id, then DeleteCommand on (id, conversationId)
DeleteMessage_Keep(mtbl, id) == mtbl

DeleteMessage(mtbl, id) == {m \in mtbl : m.id # id}

\* deleteConversationMessages(conversationId): the sets of messages a call
\* may succeed in deleting (batched, may fail for some of them); it returns
\* the number deleted
DeletableMessages(mtbl, c) == SUBSET GetConversationMessages(mtbl, c)

\* participantsBefore.find((p) => p.userId !== userId): the first other row
OtherParticipant_First(before, u) ==
  LET ids == {r.userId : r \in before}
  IN IF ids = {} THEN "none" ELSE Head(SortedSeq(ids))

OtherParticipant(before, u) ==
  LET ids == {r.userId : r \in before} \ {u}
  IN IF ids = {} THEN "none" ELSE Head(SortedSeq(ids))

(***************************************************************************)
(* The sockets of the gateway and their rooms (socket.io), and the Redis   *)
(* set online_users                                                        *)
(***************************************************************************)
\* a socket: connected or not, its handshake auth.userId, the rooms
\* user:<id> and conversation:<id> it has joined
NoSocket == [conn |-> FALSE, auth |-> "none", users |-> {}, convs |-> {}]

\* server.to(`user:${userId}`): the connected sockets in the room
UserRoom(u) == {s \in Sessions : sessions[s].conn /\ u \in sessions[s].users}

\* server.to(`conversation:${conversationId}`)
ConversationRoom(c) ==
  {s \in Sessions : sessions[s].conn /\ c \in sessions[s].convs}

\* server.emit: every connected socket
AllSockets == {s \in Sessions : sessions[s].conn}

\* client.emit: the client, while its socket is connected
ClientSocket(s) == {x \in Sessions : x = s /\ sessions[x].conn}

\* the audience of an emit: the room (or all, or the client) it names and
\* the sockets it is delivered to, those connected at the emit
ToUser(u) == [kind |-> "user", user |-> u, conv |-> 0, to |-> UserRoom(u)]

ToConversation_Participants(c) ==
  [kind |-> "conversation", user |-> "none", conv |-> c,
   to |-> {s \in Sessions : sessions[s].conn /\
             \E r \in GetConversationParticipants(participants, c) :
                r.userId \in sessions[s].users}]

ToConversation(c) ==
  [kind |-> "conversation", user |-> "none", conv |-> c, to |-> ConversationRoom(c)]

ToAll == [kind |-> "all", user |-> "none", conv |-> 0, to |-> AllSockets]

ToClient(s) == [kind |-> "client", user |-> "none", conv |-> 0, to |-> ClientSocket(s)]

\* an emitted event: its name, its audience, and the fields of the payload
\* the properties read
Event(name, aud, c, u) ==
  [name |-> name, aud |-> aud, conversationId |-> c, userId |-> u,
   participants |-> <<>>, participantCount |-> 0, action |-> "none",
   leftBy |-> "none", removedBy |-> "none", removedByName |-> "none"]

\* updatedParticipantIds = rows.map((p) => p.userId), in the order of the Query
Ids(rows) == SortedSeq({r.userId : r \in rows})

\* participantCount = updatedParticipantIds.length
ParticipantCount_Before(ids, before) == Cardinality(before)

ParticipantCount(ids, before) == Len(ids)

\* groupUpdateEventData and the user_left_group payloads: the id list, the
\* count, the action and who left or removed
GroupEvent(name, aud, c, u, ids, count, action, leftBy, by, byName) ==
  [Event(name, aud, c, u) EXCEPT !.participants = ids, !.participantCount = count,
                                 !.action = action, !.leftBy = leftBy,
                                 !.removedBy = by, !.removedByName = byName]

\* for (const participant of list) { emit first; emit second }: the events
\* first[1], second[1], first[2], second[2], ...
Interleave(first, second) ==
  [i \in 1..(2 * Len(first)) |->
     IF i % 2 = 1 THEN first[(i + 1) \div 2] ELSE second[i \div 2]]

\* the events of a request delivered to a socket
Received(p, s) ==
  {i \in 1..Len(req[p].out) : s \in req[p].out[i].aud.to}

\* the users table (POST api/users): C has no item
UsersTable == {[id |-> "A", name |-> "Ana"], [id |-> "B", name |-> "Ben"]}

\* getUser: GetCommand on users
GetUser(u) == {x \in UsersTable : x.id = u}

\* user?.name || 'Usuario'
UserName(u) ==
  IF GetUser(u) = {} THEN "Usuario" ELSE (CHOOSE x \in GetUser(u) : TRUE).name

(***************************************************************************)
(* Requests.  A request is idle, running a handler (pc), or inside a       *)
(* DynamoDBService method it awaits (call); exc is what the last service   *)
(* call threw.                                                             *)
(***************************************************************************)
\* the content of a text message, as a sequence of characters
DefaultText == <<"h", "i">>

NoCall == [fn |-> "none", st |-> "none", c |-> 0, u |-> "none", at |-> 0]

Idle == [op |-> "idle", pc |-> "idle", c |-> 0, u |-> "none", by |-> "none",
         type |-> "none", input |-> <<>>, list |-> <<>>, conv |-> NoConv,
         before |-> {}, after |-> {},
         newCreator |-> "none", call |-> NoCall, exc |-> "none",
         n |-> 0, m0 |-> 0, res |-> "none",
         client |-> Gone, at |-> 0, onlineUsers |-> {}, out |-> <<>>,
         mid |-> 0, mtype |-> "text", content |-> DefaultText, msg |-> NoMessage,
         preview |-> <<>>, stored |-> {}]

Finished(p) == req[p].pc = "done" /\ req[p].call.fn = "none"

\* a user without an avatar (avatar: '' or null)
NoAvatar == <<>>

Init ==
  /\ conversations = {}
  /\ participants = {}
  /\ messages = {}
  /\ nextConv = 1
  /\ nextMsg = 1
  /\ everRow = {}
  /\ sessions = [s \in Sessions |-> NoSocket]
  /\ online = {}
  /\ clock = 1
  /\ req = [p \in Procs |-> Idle]
  /\ files = {}
  /\ avatars = [u \in Users |-> NoAvatar]

\* the request's slot is free again
Reset(p) ==
  /\ Finished(p)
  /\ req' = [req EXCEPT ![p] = Idle]
  /\ UNCHANGED <<conversations, participants, messages, nextConv, nextMsg, everRow, sessions, online, clock, files, avatars>>

(***************************************************************************)
(* DynamoDBService.addParticipant and removeParticipant, step by step      *)
(***************************************************************************)
\* addParticipant: await getParticipant(conversationId, userId)
AddParticipantGet(p) ==
  /\ req[p].call.fn = "addParticipant" /\ req[p].call.st = "get"
  /\ req' = [req EXCEPT ![p].call.st =
               IF GetParticipant(participants, req[p].call.c, req[p].call.u) # {}
               THEN "update" ELSE "put"]
  /\ UNCHANGED <<conversations, participants, messages, nextConv, nextMsg, everRow, sessions, online, clock, files, avatars>>

\* addParticipant: await send(UpdateCommand) or send(PutCommand)
AddParticipantWrite(p) ==
  /\ req[p].call.fn = "addParticipant" /\ req[p].call.st \in {"update", "put"}
  /\ participants' =
       IF req[p].call.st = "update"
       THEN AddParticipantUpdate(participants, req[p].call.c, req[p].call.u,
                                 req[p].call.at)
       ELSE AddParticipantPut(participants, req[p].call.c, req[p].call.u,
                              req[p].call.at)
  /\ everRow' = everRow \cup ({<<req[p].call.c, req[p].call.u>>} \cap SvcKeys)
  /\ req' = [req EXCEPT ![p].call = NoCall, ![p].exc = "none"]
  /\ UNCHANGED <<conversations, messages, nextConv, nextMsg, sessions, online, clock, files, avatars>>

\* removeParticipant: await getParticipant, throw when there is no item
RemoveParticipantGet(p) ==
  /\ req[p].call.fn = "removeParticipant" /\ req[p].call.st = "get"
  /\ req' = IF RemoveParticipantExists(participants, req[p].call.c, req[p].call.u)
            THEN [req EXCEPT ![p].call.st = "delete"]
            ELSE [req EXCEPT ![p].call = NoCall,
                             ![p].exc = "ParticipantNotFound"]
  /\ UNCHANGED <<conversations, participants, messages, nextConv, nextMsg, everRow, sessions, online, clock, files, avatars>>

\* removeParticipant: await send(DeleteCommand)
RemoveParticipantWrite(p) ==
  /\ req[p].call.fn = "removeParticipant" /\ req[p].call.st = "delete"
  /\ participants' =
       RemoveParticipantDelete(participants, req[p].call.c, req[p].call.u)
  /\ req' = [req EXCEPT ![p].call = NoCall, ![p].exc = "none"]
  /\ UNCHANGED <<conversations, messages, nextConv, nextMsg, everRow, sessions, online, clock, files, avatars>>

AddParticipant(p) ==
  \/ AddParticipantGet(p)
  \/ AddParticipantWrite(p)

RemoveParticipant(p) ==
  \/ RemoveParticipantGet(p)
  \/ RemoveParticipantWrite(p)

(***************************************************************************)
(* The service methods called directly                                     *)
(***************************************************************************)
CallAddParticipant(p) ==
  \E c \in SvcConvs, u \in SvcUsers :
    /\ req[p].op = "idle"
    /\ req' = [req EXCEPT ![p] =
                 [Idle EXCEPT !.op = "addParticipant", !.pc = "done",
                              !.c = c, !.u = u,
                              !.call = [fn |-> "addParticipant", st |-> "get",
                                        c |-> c, u |-> u, at |-> clock]]]
    /\ UNCHANGED <<conversations, participants, messages, nextConv, nextMsg, everRow, sessions, online, clock, files, avatars>>

CallRemoveParticipant(p) ==
  \E c \in SvcConvs, u \in SvcUsers :
    /\ req[p].op = "idle"
    /\ req' = [req EXCEPT ![p] =
                 [Idle EXCEPT !.op = "removeParticipant", !.pc = "done",
                              !.c = c, !.u = u,
                              !.call = [fn |-> "removeParticipant", st |-> "get",
                                        c |-> c, u |-> u, at |-> clock]]]
    /\ UNCHANGED <<conversations, participants, messages, nextConv, nextMsg, everRow, sessions, online, clock, files, avatars>>

\* updateParticipantReadStatus(conversationId, userId, 0, now), as
\* mark_messages_as_read and POST api/conversations/:id/mark-as-read call it
CallUpdateParticipantReadStatus(p) ==
  \E c \in SvcConvs, u \in SvcUsers :
    /\ req[p].op = "idle"
    /\ participants' = UpdateParticipantReadStatus(participants, c, u, 0, clock)
    /\ everRow' = everRow \cup {<<c, u>>}
    /\ req' = [req EXCEPT ![p] =
                 [Idle EXCEPT !.op = "updateParticipantReadStatus", !.pc = "done",
                              !.c = c, !.u = u, !.res = "ok"]]
    /\ UNCHANGED <<conversations, messages, nextConv, nextMsg, sessions, online, clock, files, avatars>>

NextSvc ==
  \E p \in Procs :
    \/ CallAddParticipant(p)
    \/ CallRemoveParticipant(p)
    \/ CallUpdateParticipantReadStatus(p)
    \/ AddParticipant(p)
    \/ RemoveParticipant(p)
    \/ Reset(p)

SpecSvc == Init /\ [][NextSvc]_vars

(***************************************************************************)
(* POST api/conversations (AppController.createConversation)               *)
(***************************************************************************)
\* the participants lists of a private request: two user ids, in either
\* order
PrivateLists == {<<a, b>> : a \in Users, b \in Users}

\* ids still to be handed out to the requests that are about to create
Creating == {q \in Procs : req[q].pc = "cc_put"}

\* call DynamoDBService.addParticipant(c, u) and resume at pc
CallAdd(r, c, u, pc) ==
  [r EXCEPT !.call = [fn |-> "addParticipant", st |-> "get", c |-> c, u |-> u,
                      at |-> clock],
            !.pc = pc]

\* call DynamoDBService.removeParticipant(c, u) and resume at pc
CallRemove(r, c, u, pc) ==
  [r EXCEPT !.call = [fn |-> "removeParticipant", st |-> "get", c |-> c, u |-> u,
                      at |-> clock],
            !.pc = pc]

Running(p, op, pc) ==
  req[p].op = op /\ req[p].pc = pc /\ req[p].call.fn = "none"

\* the request arrives; a private request with two ids first looks for an
\* existing conversation
StartCreateConversationWith(p, l) ==
  /\ req[p].op = "idle"
  /\ nextConv + Cardinality(Creating) <= MaxConvs
  /\ req' = [req EXCEPT ![p] =
               [Idle EXCEPT !.op = "createConversation", !.type = "private",
                            !.input = l, !.list = l, !.by = l[1],
                            !.pc = IF Len(l) = 2 THEN "cc_find" ELSE "cc_put"]]
  /\ UNCHANGED <<conversations, participants, messages, nextConv, nextMsg, everRow, sessions, online, clock, files, avatars>>

StartCreateConversation(p) ==
  \E l \in PrivateLists : StartCreateConversationWith(p, l)

\* await findPrivateConversation(participants[0], participants[1])
CreateConversationFind(p) ==
  /\ Running(p, "createConversation", "cc_find")
  /\ LET found == FindPrivateConversation(participants, conversations,
                                          req[p].input[1], req[p].input[2])
     IN req' = IF found # NoConv
               THEN [req EXCEPT ![p].conv = found, ![p].res = "existing",
                                ![p].pc = "done"]
               ELSE [req EXCEPT ![p].pc = "cc_put"]
  /\ UNCHANGED <<conversations, participants, messages, nextConv, nextMsg, everRow, sessions, online, clock, files, avatars>>

\* await createConversation(conversationData), conversationId = uuid.v4()
CreateConversationPutStep(p) ==
  /\ req[p].op \in {"createConversation", "createGroup"}
  /\ req[p].pc = "cc_put" /\ req[p].call.fn = "none"
  /\ nextConv <= MaxConvs
  /\ conversations' =
       CreateConversationPut(conversations,
         [id |-> nextConv, type |-> req[p].type, createdBy |-> req[p].by])
  /\ nextConv' = nextConv + 1
  /\ req' = [req EXCEPT ![p].c = nextConv, ![p].pc = "cc_loop"]
  /\ UNCHANGED <<participants, messages, nextMsg, everRow, sessions, online, clock, files, avatars>>

\* for (const userId of data.participants) await addParticipant(...)
CreateConversationLoop(p) ==
  /\ req[p].op \in {"createConversation", "createGroup"}
  /\ req[p].pc = "cc_loop" /\ req[p].call.fn = "none"
  /\ req[p].list # <<>>
  /\ req' = [req EXCEPT ![p] =
               CallAdd([req[p] EXCEPT !.list = Tail(req[p].list)],
                       req[p].c, Head(req[p].list), "cc_loop")]
  /\ UNCHANGED <<conversations, participants, messages, nextConv, nextMsg, everRow, sessions, online, clock, files, avatars>>

\* await getParticipant(conversationId, createdBy); return the conversation
CreateConversationReturn(p) ==
  /\ Running(p, "createConversation", "cc_loop")
  /\ req[p].list = <<>>
  /\ req' = [req EXCEPT ![p].res = "created", ![p].pc = "done"]
  /\ UNCHANGED <<conversations, participants, messages, nextConv, nextMsg, everRow, sessions, online, clock, files, avatars>>

CreateConversation(p) ==
  \/ StartCreateConversation(p)
  \/ CreateConversationFind(p)
  \/ CreateConversationPutStep(p)
  \/ CreateConversationLoop(p)
  \/ CreateConversationReturn(p)

\* POST api/conversations requests of type private, one after the other
NextPriv ==
  \/ CreateConversation("p1")
  \/ AddParticipant("p1")
  \/ Reset("p1")

SpecPriv == Init /\ [][NextPriv]_vars

(***************************************************************************)
(* create_group (ChatGateway.handleCreateGroup)                            *)
(***************************************************************************)
\* the participants arrays of a create_group request
GroupLists == {SortedSeq(S) : S \in SUBSET Users}

\* a create_group request with participants l and createdBy by
StartCreateGroupWith(p, l, by) ==
  /\ req[p].op = "idle"
  /\ nextConv + Cardinality(Creating) <= MaxGroups
  /\ req' = [req EXCEPT ![p] =
               [Idle EXCEPT !.op = "createGroup", !.type = "group",
                            !.input = l, !.list = l, !.by = by,
                            !.pc = "cc_put"]]

StartCreateGroup(p) ==
  \E l \in GroupLists, by \in Users :
    /\ StartCreateGroupWith(p, l, by)
    /\ UNCHANGED <<conversations, participants, messages, nextConv, nextMsg, everRow, sessions, online, clock, files, avatars>>

\* this.server.emit('group_created', conversationData)
CreateGroupReturn(p) ==
  /\ Running(p, "createGroup", "cc_loop")
  /\ req[p].list = <<>>
  /\ req' = [req EXCEPT ![p].res = "created", ![p].pc = "done"]
  /\ UNCHANGED <<conversations, participants, messages, nextConv, nextMsg, everRow, sessions, online, clock, files, avatars>>

CreateGroup(p) ==
  \/ StartCreateGroup(p)
  \/ CreateConversationPutStep(p)
  \/ CreateConversationLoop(p)
  \/ CreateGroupReturn(p)

(***************************************************************************)
(* add_user_to_group (ChatGateway.handleAddUserToGroup) and                *)
(* POST api/conversations/:id/participants (AppController.addParticipant)  *)
(***************************************************************************)
StartAddUserToGroupFrom(p, s, c, u) ==
  /\ req[p].op = "idle"
  /\ req' = [req EXCEPT ![p] =
               [Idle EXCEPT !.op = "addUserToGroup", !.c = c, !.u = u,
                            !.client = s, !.pc = "aug_conv"]]
  /\ UNCHANGED <<conversations, participants, messages, nextConv, nextMsg, everRow, sessions, online, clock, files, avatars>>

StartAddUserToGroup(p) ==
  \E c \in ConvIds, u \in Users : StartAddUserToGroupFrom(p, Gone, c, u)

\* await getConversation(conversationId); if (!conversation) return
AddUserToGroupConv(p) ==
  /\ Running(p, "addUserToGroup", "aug_conv")
  /\ LET found == GetConversation(conversations, req[p].c)
     IN req' = IF found = {}
               THEN [req EXCEPT ![p].res = "ignored", ![p].pc = "done"]
               ELSE [req EXCEPT ![p].conv = CHOOSE cv \in found : TRUE,
                                ![p].pc = "aug_before"]
  /\ UNCHANGED <<conversations, participants, messages, nextConv, nextMsg, everRow, sessions, online, clock, files, avatars>>

\* participantsBefore = await getConversationParticipants; then addParticipant
AddUserToGroupBefore(p) ==
  /\ Running(p, "addUserToGroup", "aug_before")
  /\ req' = [req EXCEPT ![p] =
               CallAdd([req[p] EXCEPT !.before =
                          GetConversationParticipants(participants, req[p].c)],
                       req[p].c, req[p].u, "aug_after")]
  /\ UNCHANGED <<conversations, participants, messages, nextConv, nextMsg, everRow, sessions, online, clock, files, avatars>>

\* participantsAfter = await getConversationParticipants
AddUserToGroupAfter(p) ==
  /\ Running(p, "addUserToGroup", "aug_after")
  /\ req' = [req EXCEPT ![p].after =
               GetConversationParticipants(participants, req[p].c),
                        ![p].pc = "aug_updated"]
  /\ UNCHANGED <<conversations, participants, messages, nextConv, nextMsg, everRow, sessions, online, clock, files, avatars>>

AddedAudiences_Room(c, ids, u) == <<ToConversation(c)>>

\* user_added_to_group goes to the conversation room, to the user room of
\* every updated participant, and to the user room of the added user
AddedAudiences(c, ids, u) ==
  <<ToConversation(c)>> \o [i \in 1..Len(ids) |-> ToUser(ids[i])] \o <<ToUser(u)>>

\* group_participants_updated goes to the user room of every updated
\* participant, then to the conversation room
UpdateAudiences(c, ids) ==
  [i \in 1..Len(ids) |-> ToUser(ids[i])] \o <<ToConversation(c)>>

\* updatedParticipants = await getConversationParticipants; the events
AddUserToGroupUpdated(p) ==
  /\ Running(p, "addUserToGroup", "aug_updated")
  /\ LET updated == GetConversationParticipants(participants, req[p].c)
         ids == Ids(updated)
         c == req[p].c
         u == req[p].u
         Added(aud) == GroupEvent("user_added_to_group", aud, c, u, ids,
                                  ParticipantCount(ids, req[p].before),
                                  "none", "none", "none", "none")
         Update(aud) == GroupEvent("group_participants_updated", aud, c, u, ids,
                                   ParticipantCount(ids, req[p].before),
                                   "add", "none", "none", "none")
     IN req' = [req EXCEPT ![p].after = updated,
                  ![p].out = req[p].out
                     \o [i \in 1..Len(AddedAudiences(c, ids, u)) |->
                           Added(AddedAudiences(c, ids, u)[i])]
                     \o [i \in 1..Len(UpdateAudiences(c, ids)) |->
                           Update(UpdateAudiences(c, ids)[i])],
                  ![p].res = "added", ![p].pc = "done"]
  /\ UNCHANGED <<conversations, participants, messages, nextConv, nextMsg, everRow, sessions, online, clock, files, avatars>>

AddUserToGroup(p) ==
  \/ StartAddUserToGroup(p)
  \/ AddUserToGroupConv(p)
  \/ AddUserToGroupBefore(p)
  \/ AddUserToGroupAfter(p)
  \/ AddUserToGroupUpdated(p)

StartAddParticipantRest(p) ==
  \E c \in ConvIds, u \in Users :
    /\ req[p].op = "idle"
    /\ req' = [req EXCEPT ![p] =
                 [Idle EXCEPT !.op = "addParticipantRest", !.c = c, !.u = u,
                              !.pc = "ap_conv"]]
    /\ UNCHANGED <<conversations, participants, messages, nextConv, nextMsg, everRow, sessions, online, clock, files, avatars>>

\* await getConversation; throw 'Conversation not found'; addParticipant
AddParticipantRestConv(p) ==
  /\ Running(p, "addParticipantRest", "ap_conv")
  /\ req' = IF GetConversation(conversations, req[p].c) = {}
            THEN [req EXCEPT ![p].res = "error", ![p].pc = "done"]
            ELSE [req EXCEPT ![p] = CallAdd(req[p], req[p].c, req[p].u, "ap_ret")]
  /\ UNCHANGED <<conversations, participants, messages, nextConv, nextMsg, everRow, sessions, online, clock, files, avatars>>

\* return { success: true, ... }
AddParticipantRestReturn(p) ==
  /\ Running(p, "addParticipantRest", "ap_ret")
  /\ req' = [req EXCEPT ![p].res = "added", ![p].pc = "done"]
  /\ UNCHANGED <<conversations, participants, messages, nextConv, nextMsg, everRow, sessions, online, clock, files, avatars>>

AddParticipantRest(p) ==
  \/ StartAddParticipantRest(p)
  \/ AddParticipantRestConv(p)
  \/ AddParticipantRestReturn(p)

(***************************************************************************)
(* leave_group (ChatGateway.handleLeaveGroup) and                          *)
(* DELETE api/conversations/:id/participants/:userId                       *)
(* (AppController.removeParticipant)                                       *)
(***************************************************************************)
Removals == {"leaveGroup", "removeParticipantRest"}

RunningRemoval(p, pc) ==
  req[p].op \in Removals /\ req[p].pc = pc /\ req[p].call.fn = "none"

Fail_Broadcast(r, why) ==
  [r EXCEPT !.res = why, !.pc = "done",
            !.out = IF r.op = "leaveGroup"
                    THEN Append(r.out, Event("leave_group_error", ToAll, r.c, r.u))
                    ELSE r.out]

\* leave_group: client.emit('leave_group_error'); REST: BadRequestException
Fail(r, why) ==
  [r EXCEPT !.res = why, !.pc = "done",
            !.out = IF r.op = "leaveGroup"
                    THEN Append(r.out, Event("leave_group_error",
                                             ToClient(r.client), r.c, r.u))
                    ELSE r.out]

\* leave_group {conversationId: c, userId: u} from the socket s
StartLeaveGroupFrom(p, s, c, u) ==
  /\ req[p].op = "idle"
  /\ req' = [req EXCEPT ![p] =
               [Idle EXCEPT !.op = "leaveGroup", !.c = c, !.u = u,
                            !.by = u, !.client = s, !.pc = "rm_conv"]]
  /\ UNCHANGED <<conversations, participants, messages, nextConv, nextMsg, everRow, sessions, online, clock, files, avatars>>

\* the socket of the request has gone by the time the handler answers
StartLeaveGroup(p) ==
  \E c \in ConvIds, u \in Users : StartLeaveGroupFrom(p, Gone, c, u)

\* removedBy = body?.removedBy || removedByQuery || userId
RemovedBy(given, u) == IF given = "none" THEN u ELSE given

\* DELETE api/conversations/c/participants/u with removedBy given or absent
StartRemoveParticipantRestBy(p, c, u, given) ==
  /\ req[p].op = "idle"
  /\ req' = [req EXCEPT ![p] =
               [Idle EXCEPT !.op = "removeParticipantRest", !.c = c, !.u = u,
                            !.by = RemovedBy(given, u), !.pc = "rm_conv"]]
  /\ UNCHANGED <<conversations, participants, messages, nextConv, nextMsg, everRow, sessions, online, clock, files, avatars>>

\* without removedBy
StartRemoveParticipantRest(p) ==
  \E c \in ConvIds, u \in Users : StartRemoveParticipantRestBy(p, c, u, "none")

\* await getConversation; not found, or not a group: error
RemovalConv(p) ==
  /\ RunningRemoval(p, "rm_conv")
  /\ LET found == GetConversation(conversations, req[p].c)
         cv == CHOOSE x \in found : TRUE
     IN req' = IF found = {}
               THEN [req EXCEPT ![p] = Fail(req[p], "error_not_found")]
               ELSE IF cv.type # "group"
               THEN [req EXCEPT ![p] = Fail(req[p], "error_not_group")]
               ELSE [req EXCEPT ![p].conv = cv,
                                ![p].pc = IF req[p].op = "leaveGroup"
                                          THEN "rm_before" ELSE "rp_part"]
  /\ UNCHANGED <<conversations, participants, messages, nextConv, nextMsg, everRow, sessions, online, clock, files, avatars>>

\* REST: await getParticipant; no row: BadRequestException
RemoveParticipantRestPart(p) ==
  /\ Running(p, "removeParticipantRest", "rp_part")
  /\ req' = IF GetParticipant(participants, req[p].c, req[p].u) = {}
            THEN [req EXCEPT ![p] = Fail(req[p], "error_not_participant")]
            ELSE [req EXCEPT ![p].pc = "rm_before"]
  /\ UNCHANGED <<conversations, participants, messages, nextConv, nextMsg, everRow, sessions, online, clock, files, avatars>>

\* the successor of a creator who leaves a group that has other participants
NewCreatorId(cv, before, u) ==
  IF cv.createdBy = u /\ Cardinality(before) > 1
  THEN OtherParticipant(before, u) ELSE "none"

\* participantsBefore = await getConversationParticipants; leave_group
\* checks isParticipant; then the transfer of createdBy, or the removal
RemovalBefore(p) ==
  /\ RunningRemoval(p, "rm_before")
  /\ LET before == GetConversationParticipants(participants, req[p].c)
         nc == NewCreatorId(req[p].conv, before, req[p].u)
         r == [req[p] EXCEPT !.before = before, !.newCreator = nc]
     IN req' = IF /\ req[p].op = "leaveGroup"
                  /\ req[p].u \notin {x.userId : x \in before}
               THEN [req EXCEPT ![p] = Fail(r, "error_not_participant")]
               ELSE IF nc # "none"
               THEN [req EXCEPT ![p] = [r EXCEPT !.pc = "rm_transfer"]]
               ELSE [req EXCEPT ![p] = CallRemove(r, req[p].c, req[p].u, "rm_removed")]
  /\ UNCHANGED <<conversations, participants, messages, nextConv, nextMsg, everRow, sessions, online, clock, files, avatars>>

\* await updateConversationCreatedBy(conversationId, otherParticipant.userId)
RemovalTransfer(p) ==
  /\ RunningRemoval(p, "rm_transfer")
  /\ conversations' =
       UpdateConversationCreatedBy(conversations, req[p].c, req[p].newCreator)
  /\ req' = [req EXCEPT ![p] = CallRemove(req[p], req[p].c, req[p].u, "rm_removed")]
  /\ UNCHANGED <<participants, messages, nextConv, nextMsg, everRow, sessions, online, clock, files, avatars>>

\* error.message && error.message.includes('no encontrado')
NotFoundMessage(exc) == exc = "ParticipantNotFound"

\* removeParticipant has returned or thrown.  REST: an exception ends the
\* request.  leave_group: on 'no encontrado' it re-reads the row, on any
\* other error it answers leave_group_error.
RemovalRemoved(p) ==
  /\ RunningRemoval(p, "rm_removed")
  /\ req' = IF req[p].op = "removeParticipantRest"
            THEN IF req[p].exc # "none"
                 THEN [req EXCEPT ![p] = Fail(req[p], "error_exception")]
                 ELSE [req EXCEPT ![p].pc = "rm_after"]
            ELSE IF NotFoundMessage(req[p].exc)
                 THEN [req EXCEPT ![p].pc = "lg_verify_err"]
                 ELSE IF req[p].exc # "none"
                 THEN [req EXCEPT ![p] = Fail(req[p], "error_leave")]
                 ELSE [req EXCEPT ![p].pc = "lg_verify"]
  /\ UNCHANGED <<conversations, participants, messages, nextConv, nextMsg, everRow, sessions, online, clock, files, avatars>>

\* catch: verifyParticipant = await getParticipant; a row: leave_group_error
LeaveGroupVerifyError(p) ==
  /\ Running(p, "leaveGroup", "lg_verify_err")
  /\ req' = IF GetParticipant(participants, req[p].c, req[p].u) = {}
            THEN [req EXCEPT ![p].pc = "lg_verify"]
            ELSE [req EXCEPT ![p] = Fail(req[p], "error_leave")]
  /\ UNCHANGED <<conversations, participants, messages, nextConv, nextMsg, everRow, sessions, online, clock, files, avatars>>

\* after 500 ms: verifyParticipantStillExists = await getParticipant; a row:
\* removeParticipant once more
LeaveGroupVerify(p) ==
  /\ Running(p, "leaveGroup", "lg_verify")
  /\ req' = IF GetParticipant(participants, req[p].c, req[p].u) = {}
            THEN [req EXCEPT ![p].pc = "rm_after"]
            ELSE [req EXCEPT ![p] = CallRemove(req[p], req[p].c, req[p].u, "rm_after")]
  /\ UNCHANGED <<conversations, participants, messages, nextConv, nextMsg, everRow, sessions, online, clock, files, avatars>>

\* participantCount === 0
GroupIsEmpty_Never(after) == FALSE

GroupIsEmpty(after) == Cardinality(after) = 0

\* participantsAfter = await getConversationParticipants; stillParticipant:
\* error; participantCount === 0: the cascade; otherwise leave_group has
\* client.leave(`conversation:${conversationId}`)
RemovalAfter(p) ==
  /\ RunningRemoval(p, "rm_after")
  /\ LET after == GetConversationParticipants(participants, req[p].c)
         r == [req[p] EXCEPT !.after = after]
     IN /\ req' = IF req[p].u \in {x.userId : x \in after}
                  THEN [req EXCEPT ![p] = Fail(r, "error_still_participant")]
                  ELSE IF GroupIsEmpty(after)
                  THEN [req EXCEPT ![p] = [r EXCEPT !.pc = "rm_remaining"]]
                  ELSE [req EXCEPT ![p] = [r EXCEPT !.pc = "rm_user"]]
        /\ sessions' = IF /\ req[p].op = "leaveGroup"
                          /\ req[p].u \notin {x.userId : x \in after}
                          /\ ~GroupIsEmpty(after)
                          /\ req[p].client \in Sessions
                       THEN [sessions EXCEPT ![req[p].client].convs =
                               sessions[req[p].client].convs \ {req[p].c}]
                       ELSE sessions
  /\ UNCHANGED <<conversations, participants, messages, nextConv, nextMsg, everRow, online, clock, files, avatars>>

\* remainingParticipants = await getConversationParticipants
RemovalRemaining(p) ==
  /\ RunningRemoval(p, "rm_remaining")
  /\ req' = [req EXCEPT ![p].list = SortedSeq(ParticipantIds(participants, req[p].c)),
                        ![p].pc = "rm_loop"]
  /\ UNCHANGED <<conversations, participants, messages, nextConv, nextMsg, everRow, sessions, online, clock, files, avatars>>

\* for (const participant of remainingParticipants) removeParticipant,
\* errors logged
RemovalLoop(p) ==
  /\ RunningRemoval(p, "rm_loop")
  /\ req[p].list # <<>>
  /\ req' = [req EXCEPT ![p] =
               CallRemove([req[p] EXCEPT !.list = Tail(req[p].list)],
                          req[p].c, Head(req[p].list), "rm_loop")]
  /\ UNCHANGED <<conversations, participants, messages, nextConv, nextMsg, everRow, sessions, online, clock, files, avatars>>

\* deletedMessagesCount = await deleteConversationMessages(conversationId)
\* deletedMessagesCount: the number deleteConversationMessages returned
DeletedMessagesCount_Found(returned, found) == found

DeletedMessagesCount(returned, found) == returned

RemovalDeleteMessages(p) ==
  /\ RunningRemoval(p, "rm_loop")
  /\ req[p].list = <<>>
  /\ \E gone \in DeletableMessages(messages, req[p].c) :
       /\ messages' = messages \ gone
       /\ req' = [req EXCEPT ![p].n = DeletedMessagesCount(Cardinality(gone),
                      Cardinality(GetConversationMessages(messages, req[p].c))),
                    ![p].m0 = Cardinality(GetConversationMessages(messages, req[p].c)),
                    ![p].pc = "rm_delconv"]
  /\ UNCHANGED <<conversations, participants, nextConv, nextMsg, everRow, sessions, online, clock, files, avatars>>

\* await deleteConversation(conversationId); groupDeleted: true
RemovalDeleteConversation(p) ==
  /\ RunningRemoval(p, "rm_delconv")
  /\ conversations' = DeleteConversation(conversations, req[p].c)
  /\ LET c == req[p].c
         u == req[p].u
         others == SortedSeq({r.userId : r \in req[p].before} \ {u})
     IN req' = [req EXCEPT ![p].res = "group_deleted", ![p].pc = "done",
                  ![p].out = req[p].out \o
                     IF req[p].op = "leaveGroup"
                     THEN <<Event("leave_group_success", ToClient(req[p].client), c, u),
                            Event("group_deleted", ToAll, c, u)>>
                     ELSE [i \in 1..Len(others) |->
                             Event("group_deleted", ToUser(others[i]), c, u)]]
  /\ UNCHANGED <<participants, messages, nextConv, nextMsg, everRow, sessions, online, clock, files, avatars>>

\* leftBy: isSelfRemoval ? userName : removedByName
LeftBy(u, by) == IF by = u THEN UserName(u) ELSE UserName(by)

\* await getUser(...); the events; leave_group_success / success: true
RemovalNotify(p) ==
  /\ RunningRemoval(p, "rm_user")
  /\ LET c == req[p].c
         u == req[p].u
         by == req[p].by
         ids == Ids(req[p].after)
         count == ParticipantCount(ids, req[p].before)
         isSelfRemoval == by = u
         leftBy == LeftBy(u, by)
         \* leave_group
         LeaveData(aud) == Event("user_left_group", aud, c, u)
         GroupLeft(aud) == Event("group_left", aud, c, u)
         Left(aud) == GroupEvent("user_left_group", aud, c, u, <<>>, 0, "none",
                                 UserName(u), "none", "none")
         Update(aud) == GroupEvent("group_participants_updated", aud, c, u, ids,
                                   count, "remove", UserName(u), "none", "none")
         LeftTo == [i \in 1..Len(ids) |-> Left(ToUser(ids[i]))]
         UpdateTo == [i \in 1..Len(ids) |-> Update(ToUser(ids[i]))]
         \* DELETE participants
         Removed(aud) == GroupEvent("user_removed_from_group", aud, c, u, <<>>, 0,
                                    "none", "none", by, UserName(by))
         RestLeft(aud) == GroupEvent("user_left_group", aud, c, u, <<>>, 0, "none",
                                     leftBy,
                                     IF isSelfRemoval THEN "none" ELSE by,
                                     IF isSelfRemoval THEN "none" ELSE UserName(by))
         RestUpdate(aud) == GroupEvent("group_participants_updated", aud, c, u,
                                       ids, count, "remove", leftBy, by, UserName(by))
         RestLeftTo == [i \in 1..Len(ids) |-> RestLeft(ToUser(ids[i]))]
         RestUpdateTo == [i \in 1..Len(ids) |-> RestUpdate(ToUser(ids[i]))]
     IN req' = [req EXCEPT ![p].res = "removed", ![p].pc = "done",
                  ![p].out = req[p].out \o
                     IF req[p].op = "leaveGroup"
                     THEN <<LeaveData(ToUser(u)), GroupLeft(ToUser(u))>>
                          \o Interleave(LeftTo, UpdateTo)
                          \o <<Left(ToConversation(c)), Update(ToConversation(c)),
                               Event("leave_group_success", ToClient(req[p].client), c, u)>>
                     ELSE (IF isSelfRemoval THEN <<>> ELSE <<Removed(ToUser(u))>>)
                          \o Interleave(RestLeftTo, RestUpdateTo)
                          \o <<RestLeft(ToConversation(c)),
                               RestUpdate(ToConversation(c))>>]
  /\ UNCHANGED <<conversations, participants, messages, nextConv, nextMsg, everRow, sessions, online, clock, files, avatars>>

\* the steps the two removal handlers share
Removal(p) ==
  \/ RemovalConv(p)
  \/ RemovalBefore(p)
  \/ RemovalTransfer(p)
  \/ RemovalRemoved(p)
  \/ RemovalAfter(p)
  \/ RemovalRemaining(p)
  \/ RemovalDeleteMessages(p)
  \/ RemovalDeleteConversation(p)
  \/ RemovalNotify(p)

(***************************************************************************)
(* send_message (ChatGateway.handleSendMessage)                            *)
(***************************************************************************)
Sending == {q \in Procs : req[q].pc \in {"up_store", "sm_create"}}

\* the names of stored files, `${uuidv4()}${extension}`
FileNames == <<"f1", "f2", "f3", "f4">>

\* fileUrl = `/api/files/${fileName}`
FileUrl(name) == <<"/api/files/", name>>

\* path.basename(fileUrl)
Basename(url) == IF url = <<>> THEN "" ELSE url[Len(url)]

\* JSON.stringify(fileData), of which the model keeps fileUrl
JsonStringify(url) == <<"{">> \o url \o <<"}">>

\* JSON.parse(content) succeeds on what JSON.stringify wrote
JsonParses(content) ==
  Len(content) >= 2 /\ content[1] = "{" /\ content[Len(content)] = "}"

\* JSON.parse(message.content).fileUrl
ParsedFileUrl(content) == SubSeq(content, 2, Len(content) - 1)

\* path.join(this.localPath, fileName): where uploadFile writes a file and
\* where deleteFile looks for one
StoragePath(name) == <<name>>

\* the file names in use: stored, or named by a message
UsedFileNames ==
  {Basename(f) : f \in files} \cup {Basename(ParsedFileUrl(m.content)) :
                m \in {x \in messages : x.messageType = "file" /\ JsonParses(x.content)}}

\* the next name uuidv4() hands out
FreshFileNames ==
  {i \in 1..MaxFiles : FileNames[i] \notin UsedFileNames}

\* send_message and POST api/upload run the same steps
Sends == {"sendMessage", "uploadFile"}

RunningSend(p, pc) ==
  req[p].op \in Sends /\ req[p].pc = pc /\ req[p].call.fn = "none"

\* a request of kind op for conversation c from sender u, while fewer than
\* max messages are stored or about to be
StartSendWithin(p, max, s, op, c, u, type, content) ==
  /\ req[p].op = "idle"
  /\ nextMsg + Cardinality(Sending) <= max
  /\ \A r \in GetConversationParticipants(participants, c) :
       r.unreadCount < MaxUnread
  /\ op = "uploadFile" => FreshFileNames # {}
  /\ req' = [req EXCEPT ![p] =
               [Idle EXCEPT !.op = op, !.c = c, !.u = u, !.mtype = type,
                            !.content = content, !.client = s,
                            !.pc = IF op = "uploadFile" THEN "up_store"
                                   ELSE "sm_create"]]

\* fileData = await fileStorageService.uploadFile(file): the file is written
\* under a new name; content: JSON.stringify(fileData), messageType: 'file'
UploadFileStore(p) ==
  /\ RunningSend(p, "up_store")
  /\ LET name == FileNames[CHOOSE i \in FreshFileNames :
                              \A j \in FreshFileNames : i <= j]
     IN /\ files' = files \cup {StoragePath(name)}
        /\ req' = [req EXCEPT ![p].mtype = "file",
                              ![p].content = JsonStringify(FileUrl(name)),
                              ![p].pc = "sm_create"]
  /\ UNCHANGED <<conversations, participants, messages, nextConv, nextMsg, everRow, sessions, online, clock, avatars>>

StartSendFrom(p, s, op, c, u, type, content) ==
  StartSendWithin(p, MaxMsgs, s, op, c, u, type, content)

\* a request whose socket the model does not follow
StartSendAs(p, op, c, u, type, content) ==
  StartSendFrom(p, Gone, op, c, u, type, content)

StartSend(p, op, c, u) == StartSendAs(p, op, c, u, "text", DefaultText)

StartSendMessage(p) ==
  \E c \in ConvIds, u \in {Head(UserOrder)} :
    /\ StartSend(p, "sendMessage", c, u)
    /\ UNCHANGED <<conversations, participants, messages, nextConv, nextMsg, everRow, sessions, online, clock, files, avatars>>

\* await createMessage(messageData), messageId = uuidv4()
SendMessageCreate(p) ==
  /\ RunningSend(p, "sm_create")
  /\ messages' = CreateMessage(messages,
       Message(nextMsg, req[p].c, req[p].u, req[p].mtype, req[p].content, clock))
  /\ nextMsg' = nextMsg + 1
  /\ req' = [req EXCEPT ![p].mid = nextMsg, ![p].pc = "sm_conv"]
  /\ UNCHANGED <<conversations, participants, nextConv, everRow, sessions, online, clock, files, avatars>>

\* conversation = await getConversation(conversationId)
SendMessageConv(p) ==
  /\ RunningSend(p, "sm_conv")
  /\ LET found == GetConversation(conversations, req[p].c)
     IN req' = [req EXCEPT ![p].conv = IF found = {} THEN NoConv
                                       ELSE CHOOSE cv \in found : TRUE,
                           ![p].pc = "sm_parts"]
  /\ UNCHANGED <<conversations, participants, messages, nextConv, nextMsg, everRow, sessions, online, clock, files, avatars>>

\* participants = await getConversationParticipants; message_received to
\* the room; the loop skips the sender
SendMessageParticipants(p) ==
  /\ RunningSend(p, "sm_parts")
  /\ LET rows == GetConversationParticipants(participants, req[p].c)
     IN req' = [req EXCEPT ![p].before = rows,
                  ![p].list = SortedSeq({r.userId : r \in rows} \ {req[p].u}),
                  ![p].out = Append(req[p].out,
                     Event("message_received", ToConversation(req[p].c),
                           req[p].c, req[p].u)),
                  ![p].pc = "sm_online"]
  /\ UNCHANGED <<conversations, participants, messages, nextConv, nextMsg, everRow, sessions, online, clock, files, avatars>>

\* onlineUsers = await getOnlineUsers()
SendMessageOnline(p) ==
  /\ RunningSend(p, "sm_online")
  /\ req' = [req EXCEPT ![p].onlineUsers = online, ![p].pc = "sm_loop"]
  /\ UNCHANGED <<conversations, participants, messages, nextConv, nextMsg, everRow, sessions, online, clock, files, avatars>>

UnreadEventName_Private(cv) == "unread_message_private"

\* conversation.type === 'private' ? 'unread_message_private'
\*                                  : 'unread_message_group'
UnreadEventName(cv) ==
  IF cv.type = "private" THEN "unread_message_private" ELSE "unread_message_group"

\* the unreadCount the loop read for a participant
CurrentUnreadCount(rows, u) ==
  LET r == CHOOSE x \in rows : x.userId = u IN r.unreadCount

\* participant.lastReadAt (every writer of a row sets the attribute)
CurrentLastReadAt(rows, u) ==
  LET r == CHOOSE x \in rows : x.userId = u IN r.lastReadAt

\* await updateParticipantReadStatus(conversationId, participant.userId,
\* currentUnreadCount + 1, participant.lastReadAt)
\* then, if (isOnline), the unread event to the participant's user room;
\* conversation.type of a conversation that was not found throws
SendMessageLoop(p) ==
  /\ RunningSend(p, "sm_loop")
  /\ req[p].list # <<>>
  /\ LET u == Head(req[p].list)
     IN /\ participants' = UpdateParticipantReadStatus(participants, req[p].c, u,
                             CurrentUnreadCount(req[p].before, u) + 1,
                             CurrentLastReadAt(req[p].before, u))
        /\ everRow' = everRow \cup ({<<req[p].c, u>>} \cap SvcKeys)
        /\ req' = IF u \notin req[p].onlineUsers
                  THEN [req EXCEPT ![p].list = Tail(req[p].list)]
                  ELSE IF req[p].conv = NoConv
                  THEN [req EXCEPT ![p].res = "error_type", ![p].pc = "done"]
                  ELSE [req EXCEPT ![p].list = Tail(req[p].list),
                          ![p].out = Append(req[p].out,
                             Event(UnreadEventName(req[p].conv), ToUser(u),
                                   req[p].c, req[p].u))]
  /\ UNCHANGED <<conversations, messages, nextConv, nextMsg, sessions, online, clock, files, avatars>>

SendMessageReturn(p) ==
  /\ RunningSend(p, "sm_loop")
  /\ req[p].list = <<>>
  /\ req' = [req EXCEPT ![p].res = "sent", ![p].pc = "done"]
  /\ UNCHANGED <<conversations, participants, messages, nextConv, nextMsg, everRow, sessions, online, clock, files, avatars>>

SendMessage(p) ==
  \/ StartSendMessage(p)
  \/ SendMessageCreate(p)
  \/ SendMessageConv(p)
  \/ SendMessageParticipants(p)
  \/ SendMessageOnline(p)
  \/ SendMessageLoop(p)
  \/ SendMessageReturn(p)

(***************************************************************************)
(* mark_messages_as_read (ChatGateway.handleMarkMessagesAsRead) and        *)
(* POST api/conversations/:id/mark-as-read                                 *)
(* (AppController.markConversationAsRead)                                  *)
(***************************************************************************)
MarkReads == {"markMessagesAsRead", "markConversationAsRead"}

\* the request arrives; new Date() is taken for lastReadAt
StartMarkAsRead(p, op, c, u) ==
  /\ req[p].op = "idle"
  /\ req' = [req EXCEPT ![p] =
               [Idle EXCEPT !.op = op, !.c = c, !.u = u, !.at = clock,
                            !.before = participants, !.pc = "mr_update"]]
  /\ UNCHANGED <<conversations, participants, messages, nextConv, nextMsg, everRow, sessions, online, clock, files, avatars>>

\* await updateParticipantReadStatus(conversationId, userId, 0, now)
MarkAsReadUpdate(p) ==
  /\ req[p].op \in MarkReads /\ req[p].pc = "mr_update"
  /\ participants' =
       UpdateParticipantReadStatus(participants, req[p].c, req[p].u, 0, req[p].at)
  /\ everRow' = everRow \cup ({<<req[p].c, req[p].u>>} \cap SvcKeys)
  /\ req' = [req EXCEPT ![p].pc = "mr_emit"]
  /\ UNCHANGED <<conversations, messages, nextConv, nextMsg, sessions, online, clock, files, avatars>>

\* server.to(`user:${userId}`).emit('messages_marked_as_read', ...)
MarkAsReadEmit(p) ==
  /\ req[p].op \in MarkReads /\ req[p].pc = "mr_emit"
  /\ req' = [req EXCEPT ![p].out = Append(req[p].out,
                 Event("messages_marked_as_read", ToUser(req[p].u),
                       req[p].c, req[p].u)),
                        ![p].res = "ok", ![p].pc = "done"]
  /\ UNCHANGED <<conversations, participants, messages, nextConv, nextMsg, everRow, sessions, online, clock, files, avatars>>

\* time passes (new Date())
Tick ==
  /\ clock < MaxTime
  /\ clock' = clock + 1
  /\ UNCHANGED <<conversations, participants, messages, nextConv, nextMsg, everRow, sessions, online, req, files, avatars>>

(***************************************************************************)
(* Connections and presence (ChatGateway.handleConnection,                 *)
(* handleDisconnect, handleUserJoin, handleUserLeave, handleJoinRoom,      *)
(* handleLeaveRoom; RedisService.setUserOnline / setUserOffline)           *)
(***************************************************************************)
\* what client.handshake.auth.userId may hold
Auths == Users \cup {"none"}

\* client.join / client.leave: a socket that has disconnected has no rooms
JoinUser(ss, s, u) ==
  IF ss[s].conn THEN [ss EXCEPT ![s].users = ss[s].users \cup {u}] ELSE ss

LeaveUser(ss, s, u) ==
  IF ss[s].conn THEN [ss EXCEPT ![s].users = ss[s].users \ {u}] ELSE ss

\* RedisService.setUserOnline: sAdd
SetUserOnline(o, u) == o \cup {u}

\* RedisService.setUserOffline: sRem
SetUserOffline(o, u) == o \ {u}

\* a socket connects with handshake auth.userId a
ConnectWith(p, s, a) ==
  /\ req[p].op = "idle"
  /\ ~sessions[s].conn
  /\ sessions' = [sessions EXCEPT ![s] = [NoSocket EXCEPT !.conn = TRUE, !.auth = a]]
  /\ req' = [req EXCEPT ![p] =
               [Idle EXCEPT !.op = "connection", !.client = s, !.u = a,
                            !.pc = IF a = "none" THEN "done" ELSE "hc_online"]]
  /\ UNCHANGED <<conversations, participants, messages, nextConv, nextMsg, everRow, online, clock, files, avatars>>

Connect(p) == \E s \in Sessions, a \in Auths : ConnectWith(p, s, a)

\* await setUserOnline(userId); client.join(`user:${userId}`)
ConnectionOnline(p) ==
  /\ Running(p, "connection", "hc_online")
  /\ online' = SetUserOnline(online, req[p].u)
  /\ sessions' = JoinUser(sessions, req[p].client, req[p].u)
  /\ req' = [req EXCEPT ![p].pc = "done"]
  /\ UNCHANGED <<conversations, participants, messages, nextConv, nextMsg, everRow, clock, files, avatars>>

\* the socket disconnects: it leaves its rooms, then handleDisconnect runs
\* with the userId of the handshake
Disconnect(p) ==
  \E s \in Sessions :
    /\ req[p].op = "idle"
    /\ sessions[s].conn
    /\ sessions' = [sessions EXCEPT ![s] = NoSocket]
    /\ req' = [req EXCEPT ![p] =
                 [Idle EXCEPT !.op = "disconnect", !.client = s,
                              !.u = sessions[s].auth,
                              !.pc = IF sessions[s].auth = "none"
                                     THEN "done" ELSE "hd_offline"]]
    /\ UNCHANGED <<conversations, participants, messages, nextConv, nextMsg, everRow, online, clock, files, avatars>>

\* await setUserOffline(userId); server.emit('user_status_update', offline)
DisconnectOffline(p) ==
  /\ Running(p, "disconnect", "hd_offline")
  /\ online' = SetUserOffline(online, req[p].u)
  /\ req' = [req EXCEPT ![p].out = Append(req[p].out,
                 Event("user_status_update", ToAll, 0, req[p].u)),
                        ![p].pc = "done"]
  /\ UNCHANGED <<conversations, participants, messages, nextConv, nextMsg, everRow, sessions, clock, files, avatars>>

\* user_join {userId} from a connected socket
StartUserJoin(p) ==
  \E s \in Sessions, u \in Users :
    /\ req[p].op = "idle"
    /\ sessions[s].conn
    /\ req' = [req EXCEPT ![p] =
                 [Idle EXCEPT !.op = "userJoin", !.client = s, !.u = u,
                              !.pc = "uj_online"]]
    /\ UNCHANGED <<conversations, participants, messages, nextConv, nextMsg, everRow, sessions, online, clock, files, avatars>>

\* await setUserOnline(userId)
UserJoinOnline(p) ==
  /\ Running(p, "userJoin", "uj_online")
  /\ online' = SetUserOnline(online, req[p].u)
  /\ req' = [req EXCEPT ![p].pc = "uj_user"]
  /\ UNCHANGED <<conversations, participants, messages, nextConv, nextMsg, everRow, sessions, clock, files, avatars>>

\* await setUser(userId, ...); client.join(`user:${userId}`); the events
UserJoinSetUser(p) ==
  /\ Running(p, "userJoin", "uj_user")
  /\ sessions' = JoinUser(sessions, req[p].client, req[p].u)
  /\ req' = [req EXCEPT ![p].out = req[p].out \o
                 <<Event("user_status_update", ToAll, 0, req[p].u),
                   Event("user_connected", ToAll, 0, req[p].u)>>,
                        ![p].pc = "done"]
  /\ UNCHANGED <<conversations, participants, messages, nextConv, nextMsg, everRow, online, clock, files, avatars>>

UserJoin(p) ==
  \/ StartUserJoin(p)
  \/ UserJoinOnline(p)
  \/ UserJoinSetUser(p)

\* user_leave {userId} from a connected socket
StartUserLeave(p) ==
  \E s \in Sessions, u \in Users :
    /\ req[p].op = "idle"
    /\ sessions[s].conn
    /\ req' = [req EXCEPT ![p] =
                 [Idle EXCEPT !.op = "userLeave", !.client = s, !.u = u,
                              !.pc = "ul_offline"]]
    /\ UNCHANGED <<conversations, participants, messages, nextConv, nextMsg, everRow, sessions, online, clock, files, avatars>>

\* await setUserOffline(userId); client.leave(`user:${userId}`); the event
UserLeaveOffline(p) ==
  /\ Running(p, "userLeave", "ul_offline")
  /\ online' = SetUserOffline(online, req[p].u)
  /\ sessions' = LeaveUser(sessions, req[p].client, req[p].u)
  /\ req' = [req EXCEPT ![p].out = Append(req[p].out,
                 Event("user_status_update", ToAll, 0, req[p].u)),
                        ![p].pc = "done"]
  /\ UNCHANGED <<conversations, participants, messages, nextConv, nextMsg, everRow, clock, files, avatars>>

UserLeave(p) ==
  \/ StartUserLeave(p)
  \/ UserLeaveOffline(p)

\* join_room {conversationId, userId}: client.join, user_joined to the room
JoinRoomWith(p, s, c, u) ==
  /\ req[p].op = "idle"
  /\ sessions[s].conn
  /\ sessions' = [sessions EXCEPT ![s].convs = sessions[s].convs \cup {c}]
  /\ req' = [req EXCEPT ![p] =
               [Idle EXCEPT !.op = "joinRoom", !.client = s, !.c = c, !.u = u,
                            !.out = <<Event("user_joined",
                               [kind |-> "conversation", user |-> "none", conv |-> c,
                                to |-> ConversationRoom(c) \cup {s}], c, u)>>,
                            !.pc = "done"]]
  /\ UNCHANGED <<conversations, participants, messages, nextConv, nextMsg, everRow, online, clock, files, avatars>>

(***************************************************************************)
(* create_group, send_message and the removals, one request at a time      *)
(***************************************************************************)
NextSeq ==
  \/ CreateGroup("p1")
  \/ StartLeaveGroup("p1")
  \/ LeaveGroupVerify("p1")
  \/ StartRemoveParticipantRest("p1")
  \/ RemoveParticipantRestPart("p1")
  \/ Removal("p1")
  \/ SendMessage("p1")
  \/ AddParticipant("p1")
  \/ RemoveParticipant("p1")
  \/ Reset("p1")

SpecSeq == Init /\ [][NextSeq]_vars

(***************************************************************************)
(* A leave_group concurrent with add_user_to_group / addParticipant        *)
(***************************************************************************)
NextRace ==
  \/ CreateGroup("p1")
  \/ StartLeaveGroup("p1")
  \/ LeaveGroupVerify("p1")
  \/ Removal("p1")
  \/ RemovalLoop("p1")
  \/ RemoveParticipant("p1")
  \/ AddUserToGroup("p2")
  \/ AddParticipantRest("p2")
  \/ \E p \in Procs : AddParticipant(p)
  \/ \E p \in Procs : Reset(p)

SpecRace == Init /\ [][NextRace]_vars

(***************************************************************************)
(* Properties of the membership rows                                       *)
(***************************************************************************)
\* the step in which removeParticipant's DeleteCommand returns
RemoveSucceeds(p) ==
  /\ req[p].call.fn = "removeParticipant" /\ req[p].call.st = "delete"
  /\ req'[p].call.fn = "none"

\* the step in which removeParticipant reads the row it is to remove
RemoveLooksUp(p) ==
  /\ req[p].call.fn = "removeParticipant" /\ req[p].call.st = "get"
  /\ req'[p].call # req[p].call

StoreUnchanged ==
  /\ participants' = participants
  /\ conversations' = conversations
  /\ messages' = messages

FinishedCall(p, fn, exc) ==
  /\ Finished(p) /\ req[p].op = fn /\ req[p].exc = exc

\* C1: getConversationParticipants(C) never returns a userId whose
\* membership row for C has isActive = false.
C1_NoInactiveParticipant ==
  \A c \in AllConvIds :
    \A r \in GetConversationParticipants(participants, c) : r.isActive # "false"

\* a user has been removed from a conversation that still has participants
C1_Witness ==
  \E c \in AllConvIds, u \in Users :
    /\ <<c, u>> \in everRow
    /\ u \notin ParticipantIds(participants, c)
    /\ GetConversationParticipants(participants, c) # {}

C4_RemoveAbsentThrows ==
  [][\A p \in Procs :
       (/\ RemoveLooksUp(p)
        /\ <<req[p].call.c, req[p].call.u>> \notin everRow)
       => (/\ req'[p].exc = "ParticipantNotFound"
           /\ req'[p].call.fn = "none"
           /\ StoreUnchanged)]_vars

C4_Witness ==
  \E p \in Procs :
    /\ FinishedCall(p, "removeParticipant", "ParticipantNotFound")
    /\ <<req[p].c, req[p].u>> \notin everRow

\* C5: once addParticipant(C,U) has been called twice, in sequence or
\* overlapping, the store holds exactly one row for (C,U), and it is active.
C5_AddTwiceOneActiveRow ==
  \A c \in AllConvIds, u \in Users :
    (\A p \in Procs :
       FinishedCall(p, "addParticipant", "none") /\ req[p].c = c /\ req[p].u = u)
    => (/\ Cardinality(GetParticipant(participants, c, u)) = 1
        /\ \A r \in GetParticipant(participants, c, u) : r.isActive = "true")

C5_Witness ==
  \E c \in AllConvIds, u \in Users :
    /\ \A p \in Procs :
         FinishedCall(p, "addParticipant", "none") /\ req[p].c = c /\ req[p].u = u
    /\ Cardinality(GetParticipant(participants, c, u)) = 1

(***************************************************************************)
(* Properties of private conversations                                     *)
(***************************************************************************)
\* the private conversations whose participants are exactly a and b
PrivateOf(a, b) ==
  {cv \in conversations :
     cv.type = "private" /\ ParticipantIds(participants, cv.id) = {a, b}}

\* the request finds the pair's conversation
FindsExisting(p) ==
  /\ Running(p, "createConversation", "cc_find")
  /\ req[p].input[1] # req[p].input[2]
  /\ PrivateOf(req[p].input[1], req[p].input[2]) # {}
  /\ req'[p] # req[p]

\* C9: at most one private conversation exists for every unordered pair of
\* users, and a POST api/conversations for a pair that has one returns it
\* and creates nothing.
C9_OnePrivatePerPair ==
  /\ [](\A a \in Users, b \in Users :
          a # b => Cardinality(PrivateOf(a, b)) <= 1)
  /\ [][\A p \in Procs : FindsExisting(p) =>
          /\ req'[p].pc = "done" /\ req'[p].res = "existing"
          /\ req'[p].conv \in PrivateOf(req[p].input[1], req[p].input[2])
          /\ conversations' = conversations
          /\ participants' = participants
          /\ nextConv' = nextConv]_vars

\* a request given the pair in the other order got the existing conversation
C9_Witness ==
  \E p \in Procs, cv \in conversations :
    /\ Finished(p) /\ req[p].op = "createConversation"
    /\ req[p].res = "existing" /\ req[p].conv = cv
    /\ req[p].input[1] # req[p].input[2]
    /\ cv.createdBy = req[p].input[2]
    /\ cv \in PrivateOf(req[p].input[1], req[p].input[2])

\* the request has just created a private conversation for two users
CreatedPrivate(p) ==
  /\ Finished(p) /\ req[p].op = "createConversation"
  /\ req[p].res = "created" /\ req[p].type = "private"
  /\ req[p].input[1] # req[p].input[2]

\* C10: after a private conversation has been created for {A,B},
\* findPrivateConversation(A,B) returns the conversation just created.
C10_CreateThenFind ==
  \A p \in Procs :
    CreatedPrivate(p) =>
      FindPrivateConversation(participants, conversations,
                              req[p].input[1], req[p].input[2]).id = req[p].c

C10_Witness ==
  \E p \in Procs :
    /\ CreatedPrivate(p)
    /\ GetConversation(conversations, req[p].c) # {}
    /\ ParticipantIds(participants, req[p].c) = {req[p].input[1], req[p].input[2]}

(***************************************************************************)
(* Properties of the removal of a participant from a group                 *)
(***************************************************************************)
\* a removal request (leave_group or REST) has completed with this result
RemovalDone(p, res) ==
  /\ Finished(p) /\ req[p].op \in Removals /\ req[p].res = res

C7_NoRowOfDeletedConversation ==
  \A c \in ConvIds :
    (c < nextConv /\ GetConversation(conversations, c) = {})
      => GetConversationParticipants(participants, c) = {}

\* the creator leaves a group whose participants are A, B and C
CreatorLeft(p) ==
  /\ RemovalDone(p, "removed")
  /\ req[p].conv.createdBy = req[p].u
  /\ {r.userId : r \in req[p].before} = Users
  /\ req[p].u \in Users

\* C8: when the creator A of a group with participants {A,B,C} leaves and
\* the request succeeds, the group still exists, A is not a participant and
\* createdBy is B or C.
C8_OwnershipTransfer ==
  \A p \in Procs :
    CreatorLeft(p) =>
      /\ req[p].u \notin ParticipantIds(participants, req[p].c)
      /\ \E cv \in GetConversation(conversations, req[p].c) :
           cv.createdBy \in Users \ {req[p].u}

C8_Witness ==
  \E p \in Procs :
    /\ CreatorLeft(p)
    /\ req[p].newCreator \in Users \ {req[p].u}
    /\ ParticipantIds(participants, req[p].c) = Users \ {req[p].u}

(***************************************************************************)
(* Private conversations under the membership requests, one at a time      *)
(***************************************************************************)
NextMembers ==
  \/ CreateConversation("p1")
  \/ AddUserToGroup("p1")
  \/ AddParticipantRest("p1")
  \/ AddParticipant("p1")
  \/ StartLeaveGroup("p1")
  \/ StartRemoveParticipantRest("p1")
  \/ RemovalConv("p1")
  \/ Reset("p1")

SpecMembers == Init /\ [][NextMembers]_vars

\* the requests that add or remove a participant
MembershipRequests ==
  {"addUserToGroup", "addParticipantRest", "leaveGroup", "removeParticipantRest"}

\* C11: no step of add_user_to_group, POST api/conversations/:id/participants,
\* leave_group or the REST DELETE participant changes the participants of a
\* private conversation, so that a private conversation keeps its 2
\* participants.
C11_PrivateMembershipFixed ==
  [][\A p \in Procs : req[p].op \in MembershipRequests =>
       \A cv \in conversations :
         cv.type = "private" =>
           ParticipantIds(participants', cv.id) = ParticipantIds(participants, cv.id)]_vars

\* no request is being handled
Quiescent == \A p \in Procs : req[p].op = "idle" \/ Finished(p)

\* C12: in every state where no request is in flight, every group
\* conversation in the store has at least one participant.
C12_GroupHasParticipant ==
  Quiescent =>
    \A cv \in conversations :
      cv.type = "group" => GetConversationParticipants(participants, cv.id) # {}

(***************************************************************************)
(* Messages to a group whose members connect and disconnect                *)
(***************************************************************************)
\* the participants array that names every user
Everyone == SortedSeq(Users)

\* one group of every user is created; its members connect with their userId
\* in the handshake, join its room, disconnect, and send messages to it
NextUnread ==
  \/ /\ conversations = {}
     /\ StartCreateGroupWith("p1", Everyone, Head(Everyone))
     /\ UNCHANGED <<conversations, participants, messages, nextConv, nextMsg, everRow, sessions, online, clock, files, avatars>>
  \/ CreateConversationPutStep("p1")
  \/ CreateConversationLoop("p1")
  \/ CreateGroupReturn("p1")
  \/ AddParticipant("p1")
  \/ \E s \in Sessions, a \in Users : ConnectWith("p1", s, a)
  \/ ConnectionOnline("p1")
  \/ Disconnect("p1")
  \/ DisconnectOffline("p1")
  \/ \E s \in Sessions, cv \in conversations :
       JoinRoomWith("p1", s, cv.id, sessions[s].auth)
  \/ \E op \in Sends, cv \in conversations, u \in Users :
       /\ StartSend("p1", op, cv.id, u)
       /\ UNCHANGED <<conversations, participants, messages, nextConv, nextMsg, everRow, sessions, online, clock, files, avatars>>
  \/ UploadFileStore("p1")
  \/ SendMessageCreate("p1")
  \/ SendMessageConv("p1")
  \/ SendMessageParticipants("p1")
  \/ SendMessageOnline("p1")
  \/ SendMessageLoop("p1")
  \/ SendMessageReturn("p1")
  \/ Reset("p1")

SpecUnread == Init /\ [][NextUnread]_vars

\* a send_message or upload to a group has run to its end
SentToGroup(p) ==
  /\ req[p].op \in Sends /\ Finished(p) /\ req[p].res = "sent"
  /\ req[p].conv # NoConv /\ req[p].conv.type = "group"

\* the unread events of a request that were sent to the user audience of u
UnreadEventsTo(p, u) ==
  {i \in 1..Len(req[p].out) :
     /\ req[p].out[i].name \in {"unread_message_group", "unread_message_private"}
     /\ req[p].out[i].aud.kind = "user"
     /\ req[p].out[i].aud.user = u}

\* the stored unreadCount of u in conversation c
UnreadCountOf(tbl, c, u) ==
  LET r == CHOOSE x \in GetParticipant(tbl, c, u) : TRUE IN r.unreadCount

\* no connected session of u's user audience has joined the room of c
NotInRoom(c, u) == UserRoom(u) \cap ConversationRoom(c) = {}

\* one unread_message_group went to the user audience of u, to every session in it
OneGroupUnreadTo(p, u) ==
  /\ Cardinality(UnreadEventsTo(p, u)) = 1
  /\ \A i \in UnreadEventsTo(p, u) :
       /\ req[p].out[i].name = "unread_message_group"
       /\ req[p].out[i].aud.to = UserRoom(u)

NextRead ==
  \/ /\ conversations = {}
     /\ StartCreateGroupWith("p1", Everyone, Head(Everyone))
     /\ UNCHANGED <<conversations, participants, messages, nextConv, nextMsg, everRow, sessions, online, clock, files, avatars>>
  \/ CreateConversationPutStep("p1")
  \/ CreateConversationLoop("p1")
  \/ CreateGroupReturn("p1")
  \/ AddParticipant("p1")
  \/ \E s \in Sessions, a \in Users : ConnectWith("p1", s, a)
  \/ ConnectionOnline("p1")
  \/ \E s \in Sessions, cv \in conversations :
       JoinRoomWith("p1", s, cv.id, sessions[s].auth)
  \/ \E cv \in conversations :
       /\ StartSend("p1", "sendMessage", cv.id, Head(Everyone))
       /\ UNCHANGED <<conversations, participants, messages, nextConv, nextMsg, everRow, sessions, online, clock, files, avatars>>
  \/ SendMessageCreate("p1")
  \/ SendMessageConv("p1")
  \/ SendMessageParticipants("p1")
  \/ SendMessageOnline("p1")
  \/ SendMessageLoop("p1")
  \/ SendMessageReturn("p1")
  \/ \E op \in MarkReads, cv \in conversations, u \in Users :
       StartMarkAsRead("p1", op, cv.id, u)
  \/ MarkAsReadUpdate("p1")
  \/ MarkAsReadEmit("p1")
  \/ Tick
  \/ Reset("p1")

SpecRead == Init /\ [][NextRead]_vars

\* a mark_messages_as_read or POST mark-as-read has run to its end
MarkedAsRead(p) == req[p].op \in MarkReads /\ Finished(p)

\* the request was the only writer of the rows since it arrived: the rows
\* other than (c, u) are the rows of its arrival
OtherRowsUnchanged(p) ==
  {r \in participants : ~SameKey(r, req[p].c, req[p].u)} =
  {r \in req[p].before : ~SameKey(r, req[p].c, req[p].u)}

\* C14: mark_messages_as_read(C, U) sets U's unreadCount in C to 0 and
\* lastReadAt to the time of the request, leaves the unreadCount and
\* lastReadAt of every other row unchanged, and emits
\* messages_marked_as_read to U's user audience and to nobody else.
C14_MarkAsRead ==
  /\ [](\A p \in Procs : MarkedAsRead(p) =>
          /\ \A r \in GetParticipant(participants, req[p].c, req[p].u) :
               r.unreadCount = 0 /\ r.lastReadAt = req[p].at
          /\ GetParticipant(participants, req[p].c, req[p].u) # {}
          /\ OtherRowsUnchanged(p)
          /\ Len(req[p].out) = 1
          /\ \A i \in 1..Len(req[p].out) :
               /\ req[p].out[i].name = "messages_marked_as_read"
               /\ req[p].out[i].aud = ToUser(req[p].u)
               /\ req[p].out[i].conversationId = req[p].c)
  /\ [][\A p \in Procs :
          req[p].op = "idle" /\ req'[p].op \in MarkReads => req'[p].at = clock]_vars

\* a user with an unread message and an older lastReadAt has marked the
\* group as read while another member still has an unread message and a
\* session outside the user's audience is connected
C14_Witness ==
  \E p \in Procs : MarkedAsRead(p) /\
    /\ \E r \in req[p].before :
         /\ SameKey(r, req[p].c, req[p].u)
         /\ r.unreadCount > 0 /\ r.lastReadAt < req[p].at
    /\ \E r \in participants :
         ~SameKey(r, req[p].c, req[p].u) /\ r.unreadCount > 0
    /\ UserRoom(req[p].u) # {}
    /\ AllSockets \ UserRoom(req[p].u) # {}

(***************************************************************************)
(* Presence: sockets connect, join as a user, leave and disconnect         *)
(***************************************************************************)
\* connections, user_join and disconnections; nobody sends user_leave
NextPresence ==
  \/ Connect("p1")
  \/ ConnectionOnline("p1")
  \/ Disconnect("p1")
  \/ DisconnectOffline("p1")
  \/ UserJoin("p1")
  \/ Reset("p1")

SpecPresence == Init /\ [][NextPresence]_vars

\* C15: a user who has a connected session attached to them, and of whom
\* no session has sent user_leave, is in the online set.
C15_AttachedIsOnline ==
  \A u \in Users : UserRoom(u) # {} => u \in online

\* the same with user_leave; a handler that has started runs to its end
NextPresenceLeave ==
  \/ NextPresence
  \/ UserLeave("p1")

SpecPresenceFair ==
  /\ Init /\ [][NextPresenceLeave]_vars
  /\ WF_vars(ConnectionOnline("p1"))
  /\ WF_vars(DisconnectOffline("p1"))
  /\ WF_vars(UserJoinOnline("p1"))
  /\ WF_vars(UserJoinSetUser("p1"))
  /\ WF_vars(UserLeaveOffline("p1"))
  /\ WF_vars(Reset("p1"))

\* C16: once no connected session is attached to a user any more, the user
\* is eventually absent from the online set (or a session is attached to
\* the user again), whether the sessions were attached by the handshake or
\* by user_join.
C16_GoneLeadsToOffline ==
  \A u \in Users : (UserRoom(u) = {}) ~> (u \notin online \/ UserRoom(u) # {})

(***************************************************************************)
(* Notifications of membership changes: one group, its members' sessions,  *)
(* and add_user_to_group, leave_group and DELETE participants on it        *)
(***************************************************************************)
\* the participants arrays of the group: the first k users
Prefixes == {SubSeq(UserOrder, 1, k) : k \in 1..Len(UserOrder)}

\* what the removedBy of a DELETE may hold
RemovedByInputs == Users \cup {"none"}

NextNotify ==
  \/ \E l \in Prefixes, by \in Users :
       /\ conversations = {}
       /\ StartCreateGroupWith("p1", l, by)
       /\ UNCHANGED <<conversations, participants, messages, nextConv, nextMsg, everRow, sessions, online, clock, files, avatars>>
  \/ CreateConversationPutStep("p1")
  \/ CreateConversationLoop("p1")
  \/ CreateGroupReturn("p1")
  \/ AddParticipant("p1")
  \/ RemoveParticipant("p1")
  \/ \E s \in Sessions, a \in Users : ConnectWith("p1", s, a)
  \/ ConnectionOnline("p1")
  \/ \E s \in Sessions, cv \in conversations :
       JoinRoomWith("p1", s, cv.id, sessions[s].auth)
  \/ AddUserToGroup("p1")
  \/ \E s \in AllSockets, cv \in conversations, u \in Users :
       StartLeaveGroupFrom("p1", s, cv.id, u)
  \/ \E cv \in conversations, u \in Users, given \in RemovedByInputs :
       StartRemoveParticipantRestBy("p1", cv.id, u, given)
  \/ RemoveParticipantRestPart("p1")
  \/ LeaveGroupVerify("p1")
  \/ Removal("p1")
  \/ Reset("p1")

SpecNotify == Init /\ [][NextNotify]_vars

\* add_user_to_group has run to its end
AddedToGroup(p) ==
  req[p].op = "addUserToGroup" /\ Finished(p) /\ req[p].res = "added"

\* the socket s received an event of that name from the request
ReceivedNamed(p, s, name) ==
  \E i \in Received(p, s) : req[p].out[i].name = name

\* C17: after add_user_to_group(C, U), every connected session in the user
\* audience of U and of every participant of C has received
\* user_added_to_group and group_participants_updated, joined to the room
\* of C or not.
C17_AddReachesUserAudiences ==
  \A p \in Procs : AddedToGroup(p) =>
    \A v \in {req[p].u} \cup ParticipantIds(participants, req[p].c) :
      \A s \in UserRoom(v) :
        /\ ReceivedNamed(p, s, "user_added_to_group")
        /\ ReceivedNamed(p, s, "group_participants_updated")

\* a user was added to a group while a session of theirs and a session of
\* an older member were connected, neither joined to the room
C17_Witness ==
  \E p \in Procs : AddedToGroup(p) /\
    /\ req[p].u \notin {r.userId : r \in req[p].before}
    /\ UserRoom(req[p].u) \ ConversationRoom(req[p].c) # {}
    /\ \E v \in {r.userId : r \in req[p].before} :
         UserRoom(v) \ ConversationRoom(req[p].c) # {}

\* the requests that emit group_participants_updated
GroupUpdaters == {"addUserToGroup", "leaveGroup", "removeParticipantRest"}

\* the group_participants_updated events of a request
GroupUpdates(p) ==
  {i \in 1..Len(req[p].out) : req[p].out[i].name = "group_participants_updated"}

\* the ids of a participants list
ListIds(l) == {l[i] : i \in 1..Len(l)}

RemovedByRest(p) ==
  /\ req[p].op = "removeParticipantRest" /\ Finished(p)
  /\ req[p].res \in {"removed", "group_deleted"}

\* the events of that name of a request
EventsNamed(p, names) ==
  {i \in 1..Len(req[p].out) : req[p].out[i].name \in names}

\* C19: in the REST removal of U, when removedBy is absent or U, every
\* user_left_group / group_participants_updated has leftBy = U's name and
\* no user_removed_from_group is sent; when removedBy is another user, U's
\* user audience is sent user_removed_from_group naming that user and the
\* user_left_group events have leftBy = that user's name.
C19_RemovalAttribution ==
  \A p \in Procs : RemovedByRest(p) =>
    IF req[p].by = req[p].u
    THEN /\ \A i \in EventsNamed(p, {"user_left_group", "group_participants_updated"}) :
              req[p].out[i].leftBy = UserName(req[p].u)
         /\ EventsNamed(p, {"user_removed_from_group"}) = {}
    ELSE /\ \E i \in EventsNamed(p, {"user_removed_from_group"}) :
              /\ req[p].out[i].aud.kind = "user"
              /\ req[p].out[i].aud.user = req[p].u
              /\ req[p].out[i].aud.to = UserRoom(req[p].u)
              /\ req[p].out[i].removedBy = req[p].by
              /\ req[p].out[i].removedByName = UserName(req[p].by)
         /\ \A i \in EventsNamed(p, {"user_left_group"}) :
              req[p].out[i].leftBy = UserName(req[p].by)

(***************************************************************************)
(* Removals that are refused: a group, a private conversation, sessions in *)
(* their rooms, a message, and leave_group / DELETE participants on any id  *)
(***************************************************************************)
\* the conversationIds of the removals: the conversations of the store and
\* an id that no conversation has
RefuseIds == {cv.id : cv \in conversations} \cup {nextConv}

NextRefuse ==
  \/ /\ conversations = {}
     /\ StartCreateGroupWith("p1", SubSeq(UserOrder, 1, 2), Head(UserOrder))
     /\ UNCHANGED <<conversations, participants, messages, nextConv, nextMsg, everRow, sessions, online, clock, files, avatars>>
  \/ /\ \A cv \in conversations : cv.type # "private"
     /\ StartCreateConversationWith("p1", SubSeq(UserOrder, 1, 2))
  \/ CreateConversationFind("p1")
  \/ CreateConversationPutStep("p1")
  \/ CreateConversationLoop("p1")
  \/ CreateConversationReturn("p1")
  \/ CreateGroupReturn("p1")
  \/ AddParticipant("p1")
  \/ RemoveParticipant("p1")
  \/ \E s \in Sessions, a \in Users : ConnectWith("p1", s, a)
  \/ ConnectionOnline("p1")
  \/ \E s \in Sessions, cv \in conversations :
       JoinRoomWith("p1", s, cv.id, sessions[s].auth)
  \/ \E cv \in conversations :
       /\ messages = {}
       /\ StartSend("p1", "sendMessage", cv.id, Head(UserOrder))
       /\ UNCHANGED <<conversations, participants, messages, nextConv, nextMsg, everRow, sessions, online, clock, files, avatars>>
  \/ SendMessageCreate("p1")
  \/ SendMessageConv("p1")
  \/ SendMessageParticipants("p1")
  \/ SendMessageOnline("p1")
  \/ SendMessageLoop("p1")
  \/ SendMessageReturn("p1")
  \/ \E s \in AllSockets, c \in RefuseIds, u \in Users :
       StartLeaveGroupFrom("p1", s, c, u)
  \/ \E c \in RefuseIds, u \in Users :
       StartRemoveParticipantRestBy("p1", c, u, "none")
  \/ RemoveParticipantRestPart("p1")
  \/ LeaveGroupVerify("p1")
  \/ Removal("p1")
  \/ Reset("p1")

SpecRefuse == Init /\ [][NextRefuse]_vars

\* the results of the three refusals
Refusals == {"error_not_found", "error_not_group", "error_not_participant"}

\* the steps of a removal up to its last validation
Validating(p) ==
  req[p].op \in Removals /\ req[p].pc \in {"rm_conv", "rp_part", "rm_before"}

\* the conversation of the request does not exist, is not a group, or does
\* not have the user among its participants
NotRemovable(p) ==
  \/ GetConversation(conversations, req[p].c) = {}
  \/ \E cv \in GetConversation(conversations, req[p].c) : cv.type # "group"
  \/ GetParticipant(participants, req[p].c, req[p].u) = {}

\* the one event of a refused leave_group goes to its client and nobody else;
\* a refused DELETE answers with the exception and emits nothing
ErrorToClientOnly(r) ==
  IF r.op = "leaveGroup"
  THEN /\ Len(r.out) = 1
       /\ r.out[1].name = "leave_group_error"
       /\ r.out[1].aud.kind = "client"
       /\ r.out[1].aud.to \subseteq {r.client}
  ELSE r.out = <<>>

\* C20: a leave_group or DELETE participants on a conversation that does
\* not exist, that is not a group, or of which the user is not a
\* participant ends with an error that goes to the acting session only, and
\* no step of it changes a conversation, a membership row, a message or a
\* room membership.
C20_RefusedRemovalChangesNothing ==
  [][\A p \in Procs : Validating(p) /\ NotRemovable(p) =>
       /\ conversations' = conversations
       /\ participants' = participants
       /\ messages' = messages
       /\ sessions' = sessions
       /\ \/ Validating(p)' /\ req'[p].out = <<>> /\ req'[p].res = "none"
          \/ /\ Finished(p)' /\ req'[p].res \in Refusals
             /\ ErrorToClientOnly(req'[p])]_vars

\* a leave_group of a member of the private conversation was refused while
\* another session was connected and a session had joined its room
C20_Witness ==
  \E p \in Procs :
    /\ req[p].op = "leaveGroup" /\ Finished(p) /\ req[p].res = "error_not_group"
    /\ GetParticipant(participants, req[p].c, req[p].u) # {}
    /\ req[p].out[1].aud.to = {req[p].client}
    /\ AllSockets \ {req[p].client} # {}
    /\ ConversationRoom(req[p].c) # {}
    /\ messages # {}


(***************************************************************************)
(* edit_message (ChatGateway.handleEditMessage)                            *)
(***************************************************************************)
\* fifteenMinutes = 15 * 60 * 1000, in milliseconds
FifteenMinutes == 900000

\* timeDiff = Date.now() - new Date(message.timestamp).getTime()
TimeDiff(now, m) == now - m.timestamp

\* if (timeDiff > fifteenMinutes) throw
EditWindowExpired_Never(diff) == FALSE

EditWindowExpired(diff) == diff > FifteenMinutes

\* the catch block of a message handler: client.emit(name, { error })
MessageError_Room(r, name, why) ==
  [r EXCEPT !.res = why, !.pc = "done",
            !.out = Append(r.out, Event(name, ToConversation(r.msg.conversationId),
                                        r.msg.conversationId, r.u))]

MessageError(r, name, why) ==
  [r EXCEPT !.res = why, !.pc = "done",
            !.out = Append(r.out, Event(name, ToClient(r.client),
                                        r.msg.conversationId, r.u))]

RunningEdit(p, pc) == req[p].op = "editMessage" /\ req[p].pc = pc

\* edit_message { messageId, newContent, userId } from socket s
StartEditMessage(p, s, id, u, newContent) ==
  /\ req[p].op = "idle"
  /\ sessions[s].conn
  /\ req' = [req EXCEPT ![p] =
               [Idle EXCEPT !.op = "editMessage", !.client = s, !.mid = id,
                            !.u = u, !.content = newContent, !.at = clock,
                            !.before = messages, !.pc = "em_get"]]
  /\ UNCHANGED <<conversations, participants, messages, nextConv, nextMsg, everRow, sessions, online, clock, files, avatars>>

\* the first reason handleEditMessage throws for the message it read
EditRefusal_AnySender(found, u, now) ==
  IF found = {} THEN "Message not found"
  ELSE LET m == CHOOSE x \in found : TRUE
       IN IF m.messageType # "text" THEN "Only text messages can be edited"
          ELSE IF EditWindowExpired(TimeDiff(now, m))
               THEN "Message can only be edited within 15 minutes"
               ELSE "none"

EditRefusal(found, u, now) ==
  IF found = {} THEN "Message not found"
  ELSE LET m == CHOOSE x \in found : TRUE
       IN IF m.senderId # u THEN "Unauthorized to edit this message"
          ELSE IF m.messageType # "text" THEN "Only text messages can be edited"
          ELSE IF EditWindowExpired(TimeDiff(now, m))
               THEN "Message can only be edited within 15 minutes"
               ELSE "none"

\* message = await getMessage(messageId), then the four checks
EditMessageGet(p) ==
  /\ RunningEdit(p, "em_get")
  /\ LET found == GetMessage(messages, req[p].mid)
         why == EditRefusal(found, req[p].u, clock)
         r == [req[p] EXCEPT !.at = clock,
                             !.msg = IF found = {} THEN NoMessage
                                     ELSE CHOOSE x \in found : TRUE]
     IN req' = [req EXCEPT ![p] =
                  IF why = "none" THEN [r EXCEPT !.pc = "em_scan"]
                  ELSE MessageError(r, "edit_message_error", why)]
  /\ UNCHANGED <<conversations, participants, messages, nextConv, nextMsg, everRow, sessions, online, clock, files, avatars>>

\* updateMessage: await send(ScanCommand), throws 'Message not found'
EditMessageScan(p) ==
  /\ RunningEdit(p, "em_scan")
  /\ LET found == GetMessage(messages, req[p].mid)
     IN req' = [req EXCEPT ![p] =
                  IF found = {}
                  THEN MessageError(req[p], "edit_message_error", "Message not found")
                  ELSE [req[p] EXCEPT !.c = (CHOOSE x \in found : TRUE).conversationId,
                                      !.pc = "em_update"]]
  /\ UNCHANGED <<conversations, participants, messages, nextConv, nextMsg, everRow, sessions, online, clock, files, avatars>>

\* updateMessage: await send(UpdateCommand)
EditMessageUpdate(p) ==
  /\ RunningEdit(p, "em_update")
  /\ messages' = UpdateMessage(messages, req[p].mid, req[p].c, req[p].content)
  /\ req' = [req EXCEPT ![p].pc = "em_emit"]
  /\ UNCHANGED <<conversations, participants, nextConv, nextMsg, everRow, sessions, online, clock, files, avatars>>

\* updatedMessage = await getMessage(messageId);
\* server.to(`conversation:${message.conversationId}`).emit('message_edited')
EditMessageEmit(p) ==
  /\ RunningEdit(p, "em_emit")
  /\ req' = [req EXCEPT ![p].out = Append(req[p].out,
                           Event("message_edited",
                                 ToConversation(req[p].msg.conversationId),
                                 req[p].msg.conversationId, req[p].u)),
                        ![p].res = "ok", ![p].pc = "done"]
  /\ UNCHANGED <<conversations, participants, messages, nextConv, nextMsg, everRow, sessions, online, clock, files, avatars>>

EditMessage(p) ==
  \/ EditMessageGet(p)
  \/ EditMessageScan(p)
  \/ EditMessageUpdate(p)
  \/ EditMessageEmit(p)


(***************************************************************************)
(* leave_room (ChatGateway.handleLeaveRoom)                                *)
(***************************************************************************)
\* client.leave(`conversation:${conversationId}`); user_left to the room
LeaveRoomWith(p, s, c, u) ==
  /\ req[p].op = "idle"
  /\ sessions[s].conn
  /\ sessions' = [sessions EXCEPT ![s].convs = sessions[s].convs \ {c}]
  /\ req' = [req EXCEPT ![p] =
               [Idle EXCEPT !.op = "leaveRoom", !.client = s, !.c = c, !.u = u,
                            !.out = <<Event("user_left",
                               [kind |-> "conversation", user |-> "none", conv |-> c,
                                to |-> ConversationRoom(c) \ {s}], c, u)>>,
                            !.pc = "done"]]
  /\ UNCHANGED <<conversations, participants, messages, nextConv, nextMsg, everRow, online, clock, files, avatars>>

(***************************************************************************)
(* Editing: one socket joined to the room of conversation 1 or not,        *)
(* messages sent to it, time passing across the edit window, and           *)
(* edit_message requests one at a time                                     *)
(***************************************************************************)
\* the instants the clock reaches: just inside the edit window of a message
\* stored at the first instant, at its end, and just past it
Instants == {FifteenMinutes, FifteenMinutes + 1, FifteenMinutes + 2}

Elapse ==
  /\ \E t \in Instants : t > clock /\ clock' = t
  /\ UNCHANGED <<conversations, participants, messages, nextConv, nextMsg, everRow, sessions, online, req, files, avatars>>

\* the content an edit carries
NewText == <<"y", "o">>

\* the message ids requests name: those handed out and one never handed out
MessageIds == 1..(MaxMsgs + 1)

MessageTypes == {"text", "file"}

NextEdit ==
  \/ \E s \in Sessions : ConnectWith("p1", s, "none")
  \/ JoinRoomWith("p1", "s1", 1, Head(UserOrder))
  \/ \E u \in SvcUsers, type \in MessageTypes :
       /\ StartSendAs("p1", "sendMessage", 1, u, type, DefaultText)
       /\ UNCHANGED <<conversations, participants, messages, nextConv, nextMsg, everRow, sessions, online, clock, files, avatars>>
  \/ SendMessageCreate("p1")
  \/ SendMessageConv("p1")
  \/ SendMessageParticipants("p1")
  \/ SendMessageOnline("p1")
  \/ SendMessageReturn("p1")
  \/ Elapse
  \/ \E s \in Sessions, id \in MessageIds, u \in SvcUsers :
       StartEditMessage("p1", s, id, u, NewText)
  \/ EditMessage("p1")
  \/ Reset("p1")

SpecEdit == Init /\ [][NextEdit]_vars


\* the finished edit_message requests
EditsDone == {p \in Procs : req[p].op = "editMessage" /\ Finished(p)}

\* the message an edit_message request named, as stored when it arrived
Named(p) == GetMessage(req[p].before, req[p].mid)

\* the request came from the sender of a text message
EditBySenderOfText(p) ==
  \E m \in Named(p) : m.senderId = req[p].u /\ m.messageType = "text"

\* the milliseconds between the stored timestamp and the handler's Date.now()
Elapsed(p) == LET m == CHOOSE x \in Named(p) : TRUE IN req[p].at - m.timestamp

\* the request failed and left the messages as they were
EditFailed(p) ==
  /\ req[p].res # "ok"
  /\ messages = req[p].before
  /\ \E i \in 1..Len(req[p].out) : req[p].out[i].name = "edit_message_error"

\* the request succeeded: the message holds the new content
EditSucceeded(p) ==
  /\ req[p].res = "ok"
  /\ \A m \in GetMessage(messages, req[p].mid) :
       m.content = req[p].content /\ m.isEdited
  /\ GetMessage(messages, req[p].mid) # {}

\* C22: an edit_message by the sender of a text message fails and leaves
\* the messages unchanged when more than fifteen minutes separate the stored
\* timestamp from the handler's clock reading, and succeeds when fewer do
C22_EditWindow ==
  \A p \in EditsDone :
    EditBySenderOfText(p) =>
      /\ Elapsed(p) > FifteenMinutes => EditFailed(p)
      /\ Elapsed(p) < FifteenMinutes => EditSucceeded(p)

\* an edit one millisecond past the window has failed
C22_Witness ==
  \E p \in EditsDone :
    /\ EditBySenderOfText(p)
    /\ Elapsed(p) = FifteenMinutes + 1
    /\ EditFailed(p)


\* the request must be refused: no such message, another sender, or no text
EditNotAllowed(p) ==
  \A m \in Named(p) : m.senderId # req[p].u \/ m.messageType # "text"

\* every event of the request is the named error, sent to the client alone
OnlyErrorToClient(p, name) ==
  /\ req[p].out # <<>>
  /\ \A i \in 1..Len(req[p].out) :
       /\ req[p].out[i].name = name
       /\ req[p].out[i].aud.kind = "client"
       /\ req[p].out[i].aud.to \subseteq {req[p].client}

\* the messages as stored at arrival, the named one holding the new content
EditedInPlace(p) ==
  {IF m.id = req[p].mid THEN [m EXCEPT !.content = req[p].content, !.isEdited = TRUE]
   ELSE m : m \in req[p].before}

\* exactly one event, message_edited to the room of the message's conversation
EditedToRoom(p) ==
  /\ Len(req[p].out) = 1
  /\ \E m \in Named(p) :
       /\ req[p].out[1].name = "message_edited"
       /\ req[p].out[1].aud.kind = "conversation"
       /\ req[p].out[1].aud.conv = m.conversationId
       /\ req[p].out[1].aud.to = ConversationRoom(m.conversationId)

\* C23: an edit_message for a missing message, by another user than the
\* sender, or on a message that is not text leaves the messages unchanged
\* and sends edit_message_error to the acting socket only; an edit that
\* succeeds replaced the content in place, set isEdited and emitted
\* message_edited to the room of the message's conversation
C23_EditOnlyBySenderOfText ==
  \A p \in EditsDone :
    /\ EditNotAllowed(p) =>
         /\ messages = req[p].before
         /\ OnlyErrorToClient(p, "edit_message_error")
    /\ req[p].res = "ok" =>
         /\ EditBySenderOfText(p)
         /\ messages = EditedInPlace(p)
         /\ EditedToRoom(p)

\* a sender's edit has succeeded and reached a socket in the room
C23_Witness ==
  \E p \in EditsDone :
    /\ req[p].res = "ok"
    /\ messages = EditedInPlace(p)
    /\ EditedToRoom(p)
    /\ req[p].out[1].aud.to # {}


(***************************************************************************)
(* delete_message (ChatGateway.handleDeleteMessage)                        *)
(***************************************************************************)
\* FileStorageService.deleteFile: unlink or DeleteObject of path.basename
DeleteFile_ByUrl(fs, url) == fs \ {Tail(url)}

DeleteFile(fs, url) == fs \ {StoragePath(Basename(url))}

RunningDelete(p, pc) == req[p].op = "deleteMessage" /\ req[p].pc = pc

\* delete_message { messageId, userId } from socket s
StartDeleteMessage(p, s, id, u) ==
  /\ req[p].op = "idle"
  /\ sessions[s].conn
  /\ req' = [req EXCEPT ![p] =
               [Idle EXCEPT !.op = "deleteMessage", !.client = s, !.mid = id,
                            !.u = u, !.before = messages, !.stored = files,
                            !.pc = "dm_get"]]
  /\ UNCHANGED <<conversations, participants, messages, nextConv, nextMsg, everRow, sessions, online, clock, files, avatars>>

\* the reason handleDeleteMessage throws for the message it read
DeleteRefusal_AnySender(found, u) ==
  IF found = {} THEN "Message not found" ELSE "none"

DeleteRefusal(found, u) ==
  IF found = {} THEN "Message not found"
  ELSE IF (CHOOSE x \in found : TRUE).senderId # u
       THEN "Unauthorized to delete this message"
       ELSE "none"

\* message = await getMessage(messageId), the two checks, and for a file
\* message JSON.parse(message.content), whose error is caught and logged
DeleteMessageGet(p) ==
  /\ RunningDelete(p, "dm_get")
  /\ LET found == GetMessage(messages, req[p].mid)
         why == DeleteRefusal(found, req[p].u)
         m == IF found = {} THEN NoMessage ELSE CHOOSE x \in found : TRUE
         r == [req[p] EXCEPT !.msg = m]
     IN req' = [req EXCEPT ![p] =
                  IF why # "none" THEN MessageError(r, "delete_message_error", why)
                  ELSE IF m.messageType = "file" /\ JsonParses(m.content)
                       THEN [r EXCEPT !.pc = "dm_file"]
                       ELSE [r EXCEPT !.pc = "dm_scan"]]
  /\ UNCHANGED <<conversations, participants, messages, nextConv, nextMsg, everRow, sessions, online, clock, files, avatars>>

\* try { await deleteFile(...) } catch (fileError) { console.error(...) }
DeleteFileCaught_Rethrow(r, thrown) ==
  IF thrown THEN MessageError(r, "delete_message_error", "deleteFile")
  ELSE [r EXCEPT !.pc = "dm_scan"]

DeleteFileCaught(r, thrown) ==
  [r EXCEPT !.exc = IF thrown THEN "deleteFile" ELSE "none", !.pc = "dm_scan"]

\* await fileStorageService.deleteFile(fileData.fileUrl): the file is
\* removed, or the call throws and the handler logs the error and goes on
DeleteMessageFile(p) ==
  /\ RunningDelete(p, "dm_file")
  /\ \E thrown \in BOOLEAN :
       /\ files' = IF thrown THEN files
                   ELSE DeleteFile(files, ParsedFileUrl(req[p].msg.content))
       /\ req' = [req EXCEPT ![p] = DeleteFileCaught(req[p], thrown)]
  /\ UNCHANGED <<conversations, participants, messages, nextConv, nextMsg, everRow, sessions, online, clock, avatars>>

\* deleteMessage: await send(ScanCommand), throws 'Mensaje no encontrado'
DeleteMessageScan(p) ==
  /\ RunningDelete(p, "dm_scan")
  /\ LET found == GetMessage(messages, req[p].mid)
     IN req' = [req EXCEPT ![p] =
                  IF found = {}
                  THEN MessageError(req[p], "delete_message_error",
                                    "Mensaje no encontrado")
                  ELSE [req[p] EXCEPT !.c = (CHOOSE x \in found : TRUE).conversationId,
                                      !.pc = "dm_delete"]]
  /\ UNCHANGED <<conversations, participants, messages, nextConv, nextMsg, everRow, sessions, online, clock, files, avatars>>

\* deleteMessage: await send(DeleteCommand) on the key (id, conversationId)
DeleteMessageDelete(p) ==
  /\ RunningDelete(p, "dm_delete")
  /\ messages' = DeleteMessage(messages, req[p].mid)
  /\ req' = [req EXCEPT ![p].pc = "dm_emit"]
  /\ UNCHANGED <<conversations, participants, nextConv, nextMsg, everRow, sessions, online, clock, files, avatars>>

\* server.to(`conversation:${message.conversationId}`).emit('message_deleted')
DeleteMessageEmit(p) ==
  /\ RunningDelete(p, "dm_emit")
  /\ req' = [req EXCEPT ![p].out = Append(req[p].out,
                           Event("message_deleted",
                                 ToConversation(req[p].msg.conversationId),
                                 req[p].msg.conversationId, req[p].u)),
                        ![p].res = "ok", ![p].pc = "done"]
  /\ UNCHANGED <<conversations, participants, messages, nextConv, nextMsg, everRow, sessions, online, clock, files, avatars>>

DeleteMessageSteps(p) ==
  \/ DeleteMessageGet(p)
  \/ DeleteMessageFile(p)
  \/ DeleteMessageScan(p)
  \/ DeleteMessageDelete(p)
  \/ DeleteMessageEmit(p)


(***************************************************************************)
(* send_reply (ChatGateway.handleSendReply)                                *)
(***************************************************************************)
\* the longest replyPreview, and the characters kept before '...'
PreviewMax == 100
PreviewKept == 97

\* replyPreview.substring(0, 97) + '...'
Truncate_Keep100(text) == SubSeq(text, 1, PreviewMax) \o <<".", ".", ".">>

Truncate(text) == SubSeq(text, 1, PreviewKept) \o <<".", ".", ".">>

\* if (replyPreview.length > 100) replyPreview = substring(0, 97) + '...'
Shorten(text) == IF Len(text) > PreviewMax THEN Truncate(text) ELSE text

\* 'Audio' or 'Archivo', then ': ' and the file name when the content parses
\* (the model keeps fileUrl of fileData, not fileName: 'Sin nombre')
FilePreview(m) ==
  LET fileType == IF m.messageType = "audio" THEN "Audio" ELSE "Archivo"
  IN IF JsonParses(m.content) THEN <<fileType, ": ", "Sin nombre">>
     ELSE <<fileType>>

\* replyPreview of the original message
ReplyPreview(m) ==
  Shorten(IF m.messageType \in {"file", "audio"} THEN FilePreview(m)
          ELSE m.content)

RunningReply(p, pc) == req[p].op = "sendReply" /\ req[p].pc = pc

\* send_reply { conversationId, senderId, content, messageType, replyTo };
\* replies may take one message id more than the messages sent
StartSendReply(p, s, c, u, id) ==
  /\ req[p].op = "idle"
  /\ sessions[s].conn
  /\ nextMsg <= MaxMsgs + 1
  /\ req' = [req EXCEPT ![p] =
               [Idle EXCEPT !.op = "sendReply", !.client = s, !.c = c, !.u = u,
                            !.mid = id, !.content = NewText,
                            !.before = messages, !.pc = "sr_parts"]]
  /\ UNCHANGED <<conversations, participants, messages, nextConv, nextMsg, everRow, sessions, online, clock, files, avatars>>

\* the early returns: client.emit('reply_error', ...) and return
ReplyError(r, why) ==
  [r EXCEPT !.res = why, !.pc = "done",
            !.out = Append(r.out, Event("reply_error", ToClient(r.client), r.c, r.u))]

\* participants.some((p) => p.userId === senderId)
IsUserInConversation_Always(rows, u) == TRUE

IsUserInConversation(rows, u) == \E r \in rows : r.userId = u

\* participants = await getConversationParticipants(conversationId)
SendReplyParticipants(p) ==
  /\ RunningReply(p, "sr_parts")
  /\ req' = [req EXCEPT ![p] =
       IF IsUserInConversation(GetConversationParticipants(participants, req[p].c),
                               req[p].u)
       THEN [req[p] EXCEPT !.pc = "sr_get"]
       ELSE ReplyError(req[p], "Usuario no esta en la conversacion")]
  /\ UNCHANGED <<conversations, participants, messages, nextConv, nextMsg, everRow, sessions, online, clock, files, avatars>>

\* originalMessage = await getMessage(replyTo)
SendReplyGet(p) ==
  /\ RunningReply(p, "sr_get")
  /\ LET found == {m \in GetMessage(messages, req[p].mid) :
                     m.conversationId = req[p].c}
     IN req' = [req EXCEPT ![p] =
          IF found = {} THEN ReplyError(req[p], "Mensaje original no encontrado")
          ELSE [req[p] EXCEPT !.msg = CHOOSE m \in found : TRUE,
                              !.pc = "sr_create"]]
  /\ UNCHANGED <<conversations, participants, messages, nextConv, nextMsg, everRow, sessions, online, clock, files, avatars>>

\* await createMessage(replyMessageData), messageId = uuidv4()
SendReplyCreate(p) ==
  /\ RunningReply(p, "sr_create")
  /\ messages' = CreateMessage(messages,
       Message(nextMsg, req[p].c, req[p].u, req[p].mtype, req[p].content, clock))
  /\ nextMsg' = nextMsg + 1
  /\ req' = [req EXCEPT ![p].n = nextMsg,
                        ![p].preview = ReplyPreview(req[p].msg),
                        ![p].pc = "sr_user"]
  /\ UNCHANGED <<conversations, participants, nextConv, everRow, sessions, online, clock, files, avatars>>

\* user = await getUser(senderId); reply_received to the conversation room,
\* reply_sent_success to the client
SendReplyEmit(p) ==
  /\ RunningReply(p, "sr_user")
  /\ req' = [req EXCEPT ![p].out = req[p].out \o
                 <<Event("reply_received", ToConversation(req[p].c),
                         req[p].c, req[p].u),
                   Event("reply_sent_success", ToClient(req[p].client),
                         req[p].c, req[p].u)>>,
                        ![p].res = "ok", ![p].pc = "done"]
  /\ UNCHANGED <<conversations, participants, messages, nextConv, nextMsg, everRow, sessions, online, clock, files, avatars>>

SendReply(p) ==
  \/ SendReplyParticipants(p)
  \/ SendReplyGet(p)
  \/ SendReplyCreate(p)
  \/ SendReplyEmit(p)


(***************************************************************************)
(* Failing requests: a group of the first two users, sockets of theirs,    *)
(* one message, and leave_group, add_user_to_group, edit_message,          *)
(* delete_message and send_reply requests one at a time                    *)
(***************************************************************************)
\* the WebSocket requests that answer a failure with an error event
Reporting == {"leaveGroup", "addUserToGroup", "editMessage", "deleteMessage",
              "sendReply"}

\* the results of a request that went through
Successes == {"ok", "added", "removed", "group_deleted"}

\* the requests that have ended in a failure
Failed == {p \in Procs : req[p].op \in Reporting /\ Finished(p)
                         /\ req[p].res \notin Successes}

NextFail ==
  \/ /\ conversations = {}
     /\ StartCreateGroupWith("p1", SubSeq(UserOrder, 1, 2), Head(UserOrder))
     /\ UNCHANGED <<conversations, participants, messages, nextConv, nextMsg, everRow, sessions, online, clock, files, avatars>>
  \/ CreateConversationPutStep("p1")
  \/ CreateConversationLoop("p1")
  \/ CreateGroupReturn("p1")
  \/ AddParticipant("p1")
  \/ RemoveParticipant("p1")
  \/ \E s \in Sessions, a \in SvcUsers : ConnectWith("p1", s, a)
  \/ ConnectionOnline("p1")
  \/ \E s \in Sessions, cv \in conversations :
       JoinRoomWith("p1", s, cv.id, sessions[s].auth)
  \/ \E cv \in conversations :
       /\ messages = {}
       /\ StartSend("p1", "sendMessage", cv.id, Head(UserOrder))
       /\ UNCHANGED <<conversations, participants, messages, nextConv, nextMsg, everRow, sessions, online, clock, files, avatars>>
  \/ SendMessageCreate("p1")
  \/ SendMessageConv("p1")
  \/ SendMessageParticipants("p1")
  \/ SendMessageOnline("p1")
  \/ SendMessageLoop("p1")
  \/ SendMessageReturn("p1")
  \/ \E s \in AllSockets, c \in RefuseIds, u \in Users :
       StartLeaveGroupFrom("p1", s, c, u)
  \/ LeaveGroupVerify("p1")
  \/ Removal("p1")
  \/ \E s \in AllSockets, c \in RefuseIds :
       StartAddUserToGroupFrom("p1", s, c, UserOrder[Len(UserOrder)])
  \/ AddUserToGroupConv("p1")
  \/ AddUserToGroupBefore("p1")
  \/ AddUserToGroupAfter("p1")
  \/ AddUserToGroupUpdated("p1")
  \/ \E s \in AllSockets, id \in MessageIds, u \in SvcUsers :
       StartEditMessage("p1", s, id, u, NewText)
  \/ EditMessage("p1")
  \/ \E s \in AllSockets, id \in MessageIds, u \in SvcUsers :
       StartDeleteMessage("p1", s, id, u)
  \/ DeleteMessageGet("p1")
  \/ DeleteMessageScan("p1")
  \/ DeleteMessageDelete("p1")
  \/ DeleteMessageEmit("p1")
  \/ \E s \in AllSockets, c \in RefuseIds, u \in Users, id \in MessageIds :
       StartSendReply("p1", s, c, u, id)
  \/ SendReply("p1")
  \/ Reset("p1")

SpecFail == Init /\ [][NextFail]_vars

\* the acting socket received an error event of the request
ErrorReceived(p) ==
  \E i \in Received(p, req[p].client) :
    req[p].out[i].name \in {"leave_group_error", "edit_message_error",
                            "delete_message_error", "reply_error"}

\* no socket but the acting one received an event of the request
NothingToOthers(p) ==
  \A s \in Sessions \ {req[p].client} : Received(p, s) = {}

\* C21: when a leave_group, add_user_to_group, edit_message, delete_message
\* or send_reply request fails, the acting socket receives an error event
\* and no other socket receives an event of the request
C21_FailureReported ==
  \A p \in Failed : ErrorReceived(p) /\ NothingToOthers(p)


(***************************************************************************)
(* Replies: a group of the first two users, one message sent to it or to   *)
(* another conversation id, a socket that may join the room, and           *)
(* send_reply requests one at a time                                       *)
(***************************************************************************)
NextReply ==
  \/ /\ conversations = {}
     /\ StartCreateGroupWith("p1", SubSeq(UserOrder, 1, 2), Head(UserOrder))
     /\ UNCHANGED <<conversations, participants, messages, nextConv, nextMsg, everRow, sessions, online, clock, files, avatars>>
  \/ CreateConversationPutStep("p1")
  \/ CreateConversationLoop("p1")
  \/ CreateGroupReturn("p1")
  \/ AddParticipant("p1")
  \/ \E s \in Sessions : ConnectWith("p1", s, "none")
  \/ \E cv \in conversations : JoinRoomWith("p1", "s1", cv.id, Head(UserOrder))
  \/ \E c \in 1..2 :
       /\ messages = {} /\ conversations # {}
       /\ StartSend("p1", "sendMessage", c, Head(UserOrder))
       /\ UNCHANGED <<conversations, participants, messages, nextConv, nextMsg, everRow, sessions, online, clock, files, avatars>>
  \/ SendMessageCreate("p1")
  \/ SendMessageConv("p1")
  \/ SendMessageParticipants("p1")
  \/ SendMessageOnline("p1")
  \/ SendMessageLoop("p1")
  \/ SendMessageReturn("p1")
  \/ \E s \in AllSockets, c \in 1..2, u \in Users, id \in MessageIds :
       StartSendReply("p1", s, c, u, id)
  \/ SendReply("p1")
  \/ Reset("p1")

SpecReply == Init /\ [][NextReply]_vars

\* the finished send_reply requests
RepliesDone == {p \in Procs : req[p].op = "sendReply" /\ Finished(p)}

\* the sender is a participant and the replyTo message is in the conversation
ReplyAllowed(p) ==
  /\ GetParticipant(participants, req[p].c, req[p].u) # {}
  /\ \E m \in Named(p) : m.conversationId = req[p].c

\* the messages stored by the request
StoredBy(p) == messages \ req[p].before

\* reply_received to the room of the conversation, then reply_sent_success
\* to the acting socket only
ReplyEvents(p) ==
  /\ Len(req[p].out) = 2
  /\ req[p].out[1].name = "reply_received"
  /\ req[p].out[1].aud.kind = "conversation"
  /\ req[p].out[1].aud.conv = req[p].c
  /\ req[p].out[1].aud.to = ConversationRoom(req[p].c)
  /\ req[p].out[2].name = "reply_sent_success"
  /\ req[p].out[2].aud.kind = "client"
  /\ req[p].out[2].aud.to \subseteq {req[p].client}

\* C24: a send_reply stores a reply and emits reply_received to the room
\* exactly when the sender is a participant of the conversation and the
\* replyTo message exists in that conversation, and then reply_sent_success
\* goes to the acting socket only; otherwise no message is stored and the
\* only event is reply_error to the acting socket
C24_ReplyOnlyFromParticipant ==
  \A p \in RepliesDone :
    IF ReplyAllowed(p)
    THEN /\ req[p].before \subseteq messages
         /\ \E m \in StoredBy(p) :
              /\ StoredBy(p) = {m}
              /\ m.conversationId = req[p].c
              /\ m.senderId = req[p].u
              /\ m.content = req[p].content
         /\ ReplyEvents(p)
    ELSE /\ messages = req[p].before
         /\ OnlyErrorToClient(p, "reply_error")

\* a participant's reply was stored and reached a socket joined to the room
\* while the acting socket was another one
C24_Witness ==
  \E p \in RepliesDone :
    /\ ReplyAllowed(p)
    /\ StoredBy(p) # {}
    /\ ReplyEvents(p)
    /\ req[p].out[1].aud.to = {"s1"}
    /\ req[p].client # "s1"


(***************************************************************************)
(* The preview of a reply: one text message of every length up to MaxText  *)
(* in a conversation of its sender, and a send_reply that quotes it        *)
(***************************************************************************)
\* the characters of a text and the texts of a given length
Chars == <<"a", "b", "c">>

TextOf(n, k) == [i \in 1..n |-> Chars[((i + k) % Len(Chars)) + 1]]

InitPreview ==
  /\ conversations = {}
  /\ participants = {NewParticipant(1, Head(UserOrder), 1)}
  /\ \E n \in 0..MaxText, k \in 1..Len(Chars) :
       messages = {Message(1, 1, Head(UserOrder), "text", TextOf(n, k), 1)}
  /\ nextConv = 1
  /\ nextMsg = 2
  /\ everRow = {}
  /\ sessions = [s \in Sessions |-> [NoSocket EXCEPT !.conn = (s = "s1")]]
  /\ online = {}
  /\ clock = 1
  /\ req = [p \in Procs |-> Idle]
  /\ files = {}
  /\ avatars = [u \in Users |-> NoAvatar]

NextPreview ==
  \/ StartSendReply("p1", "s1", 1, Head(UserOrder), 1)
  \/ SendReply("p1")

SpecPreview == InitPreview /\ [][NextPreview]_vars

\* the original message a finished reply quoted
Original(p) == CHOOSE m \in Named(p) : TRUE

\* C25: the replyPreview of a text original is its content when that is at
\* most 100 characters long, and otherwise its first 97 characters followed
\* by '...', 100 characters in all
C25_PreviewLength ==
  \A p \in RepliesDone :
    (req[p].res = "ok" /\ Original(p).messageType = "text") =>
      LET text == Original(p).content
          preview == req[p].preview
      IN IF Len(text) <= 100 THEN preview = text
         ELSE /\ Len(preview) = 100
              /\ SubSeq(preview, 1, 97) = SubSeq(text, 1, 97)
              /\ SubSeq(preview, 98, 100) = <<".", ".", ".">>

\* a reply quoted a text of 250 characters with a preview of 100
C25_Witness ==
  \E p \in RepliesDone :
    /\ req[p].res = "ok"
    /\ Original(p).messageType = "text"
    /\ Len(Original(p).content) = 250
    /\ Len(req[p].preview) = 100


(***************************************************************************)
(* Deleting: text and file messages of the first two users in             *)
(* conversation 1, a socket that may join its room, and delete_message     *)
(* requests one at a time                                                  *)
(***************************************************************************)
NextDelete ==
  \/ \E s \in Sessions : ConnectWith("p1", s, "none")
  \/ JoinRoomWith("p1", "s1", 1, Head(UserOrder))
  \/ \E op \in Sends, u \in SvcUsers, type \in MessageTypes :
       /\ op = "uploadFile" => type = "text"
       /\ StartSendAs("p1", op, 1, u, type, DefaultText)
       /\ UNCHANGED <<conversations, participants, messages, nextConv, nextMsg, everRow, sessions, online, clock, files, avatars>>
  \/ UploadFileStore("p1")
  \/ SendMessageCreate("p1")
  \/ SendMessageConv("p1")
  \/ SendMessageParticipants("p1")
  \/ SendMessageOnline("p1")
  \/ SendMessageReturn("p1")
  \/ \E s \in AllSockets, id \in MessageIds, u \in SvcUsers :
       StartDeleteMessage("p1", s, id, u)
  \/ DeleteMessageSteps("p1")
  \/ Reset("p1")

SpecDelete == Init /\ [][NextDelete]_vars

\* the finished delete_message requests
DeletesDone == {p \in Procs : req[p].op = "deleteMessage" /\ Finished(p)}

\* the request came from the sender of a file message
DeleteBySenderOfFile(p) ==
  \E m \in Named(p) : m.senderId = req[p].u /\ m.messageType = "file"

\* the request named no message, or one of another sender
DeleteNotAllowed(p) == \A m \in Named(p) : m.senderId # req[p].u

\* exactly one event, message_deleted to the room of the message's conversation
DeletedToRoom(p) ==
  /\ Len(req[p].out) = 1
  /\ \E m \in Named(p) :
       /\ req[p].out[1].name = "message_deleted"
       /\ req[p].out[1].aud.kind = "conversation"
       /\ req[p].out[1].aud.conv = m.conversationId
       /\ req[p].out[1].aud.to = ConversationRoom(m.conversationId)

\* C26: a delete_message by the sender of a file message removes the
\* message and emits message_deleted to the room of its conversation,
\* whether or not deleting the stored file failed; a delete_message by
\* another user or for a missing message removes neither a message nor a
\* file and its only event is delete_message_error to the acting socket
C26_DeleteFileMessage ==
  \A p \in DeletesDone :
    /\ DeleteBySenderOfFile(p) =>
         /\ messages = req[p].before \ Named(p)
         /\ DeletedToRoom(p)
    /\ DeleteNotAllowed(p) =>
         /\ messages = req[p].before
         /\ files = req[p].stored
         /\ OnlyErrorToClient(p, "delete_message_error")

\* the file could not be deleted and is still stored; the message is gone and
\* message_deleted reached the socket joined to the room
C26_Witness ==
  \E p \in DeletesDone :
    /\ DeleteBySenderOfFile(p)
    /\ req[p].exc = "deleteFile"
    /\ files = req[p].stored /\ files # {}
    /\ messages = req[p].before \ Named(p)
    /\ DeletedToRoom(p)
    /\ req[p].out[1].aud.to = {"s1"}


(***************************************************************************)
(* The cascade after the last participant left                             *)
(***************************************************************************)
\* the finished removals that deleted the group
CascadesDone ==
  {p \in Procs : req[p].op \in Removals /\ Finished(p)
                 /\ req[p].res = "group_deleted"}

\* the messages of the request's conversation still stored
MessagesLeft(p) == GetConversationMessages(messages, req[p].c)

RemovalSteps(p) ==
  \/ RemoveParticipantRestPart(p)
  \/ LeaveGroupVerifyError(p)
  \/ LeaveGroupVerify(p)
  \/ Removal(p)
  \/ RemoveParticipant(p)

\* a removal that has not ended
RemovalInFlight(p) == req[p].op \in Removals /\ ~Finished(p)

NextOverlap ==
  \/ \E l \in Prefixes :
       /\ conversations = {} /\ req["p2"].op = "idle"
       /\ StartCreateGroupWith("p1", l, Head(l))
       /\ UNCHANGED <<conversations, participants, messages, nextConv, nextMsg, everRow, sessions, online, clock, files, avatars>>
  \/ CreateConversationPutStep("p1")
  \/ CreateConversationLoop("p1")
  \/ CreateGroupReturn("p1")
  \/ AddParticipant("p1")
  \/ \E cv \in conversations, u \in SvcUsers :
       /\ req["p2"].op = "idle"
       /\ \/ StartLeaveGroupFrom("p1", Gone, cv.id, u)
          \/ StartRemoveParticipantRestBy("p1", cv.id, u, "none")
  \/ /\ RemovalInFlight("p1")
     /\ \/ StartLeaveGroupFrom("p2", Gone, req["p1"].c, req["p1"].u)
        \/ /\ req["p1"].op = "leaveGroup"
           /\ StartRemoveParticipantRestBy("p2", req["p1"].c, req["p1"].u, "none")
  \/ \E p \in Procs : RemovalSteps(p)
  \/ \E p \in Procs : Reset(p)

\* every request goes on until it has ended: an awaited call returns
SpecOverlap ==
  /\ Init /\ [][NextOverlap]_vars
  /\ \A p \in Procs : WF_vars(RemovalSteps(p))

\* the two overlapping removals have both ended
OverlapDone ==
  /\ req["p2"].op \in Removals /\ Finished("p2")
  /\ ~RemovalInFlight("p1")

\* the store a single removal of (c, u) leaves: no row of u, and the
\* conversation deleted exactly when it has no participant left
Removed(c, u) ==
  /\ GetParticipant(participants, c, u) = {}
  /\ GetConversation(conversations, c) = {}
       <=> GetConversationParticipants(participants, c) = {}

\* while the second removal runs, a step keeps the rows of everybody else
OthersKept ==
  req["p2"].op \in Removals =>
    \A r \in participants :
      ~SameKey(r, req["p2"].c, req["p2"].u) => r \in participants'

\* C28: two overlapping removals of the same participant from the same
\* conversation both end; no step of theirs touches another participant's
\* row; and when both have ended the user has no row and the conversation
\* is deleted exactly when no participant remains
C28_OverlappingRemovals ==
  /\ [](OverlapDone => Removed(req["p2"].c, req["p2"].u))
  /\ [][OthersKept]_vars
  /\ \A p \in Procs : RemovalInFlight(p) ~> ~RemovalInFlight(p)

\* both removals of the last participant ran the cascade
C28_Witness ==
  /\ OverlapDone /\ Finished("p1")
  /\ req["p1"].res = "group_deleted" /\ req["p2"].res = "group_deleted"
  /\ req["p1"].c = req["p2"].c /\ req["p1"].u = req["p2"].u
  /\ Removed(req["p2"].c, req["p2"].u)


(***************************************************************************)
(* Delivery to a room: a group of the first user alone, sockets of the     *)
(* first two users that connect, join and leave the room and disconnect    *)
(* while a send_message to the group runs                                  *)
(***************************************************************************)
NextRoom ==
  \/ /\ conversations = {}
     /\ StartCreateGroupWith("p1", SubSeq(UserOrder, 1, 1), Head(UserOrder))
     /\ UNCHANGED <<conversations, participants, messages, nextConv, nextMsg, everRow, sessions, online, clock, files, avatars>>
  \/ CreateConversationPutStep("p1")
  \/ CreateConversationLoop("p1")
  \/ CreateGroupReturn("p1")
  \/ AddParticipant("p1")
  \/ \E s \in AllSockets, cv \in conversations, u \in SvcUsers :
       /\ StartSendFrom("p1", s, "sendMessage", cv.id, u, "text", DefaultText)
       /\ UNCHANGED <<conversations, participants, messages, nextConv, nextMsg, everRow, sessions, online, clock, files, avatars>>
  \/ SendMessageCreate("p1")
  \/ SendMessageConv("p1")
  \/ SendMessageParticipants("p1")
  \/ SendMessageOnline("p1")
  \/ SendMessageLoop("p1")
  \/ SendMessageReturn("p1")
  \/ \E s \in Sessions, a \in SvcUsers : ConnectWith("p2", s, a)
  \/ ConnectionOnline("p2")
  \/ Disconnect("p2")
  \/ DisconnectOffline("p2")
  \/ \E s \in Sessions, cv \in conversations :
       JoinRoomWith("p2", s, cv.id, sessions[s].auth)
  \/ \E s \in Sessions, cv \in conversations :
       LeaveRoomWith("p2", s, cv.id, sessions[s].auth)
  \/ \E p \in Procs : Reset(p)

SpecRoom == Init /\ [][NextRoom]_vars

\* the steps of a send_message before its message_received
BeforeEmit == {"sm_create", "sm_conv", "sm_parts"}

\* the request is about to emit message_received
Emitting(p) == RunningSend(p, "sm_parts")

\* the sockets joined to the room of conversation c
JoinedTo(c) == {s \in Sessions : sessions[s].conn /\ c \in sessions[s].convs}

\* the message of the request is stored
Stored(p) ==
  \E m \in GetMessage(messages, req[p].mid) :
    m.conversationId = req[p].c /\ m.senderId = req[p].u

\* C29: a send_message emits message_received only after its message is
\* stored, and the event is delivered to exactly the sockets joined to the
\* conversation's room at the emit, the sender's own socket among them if
\* and only if it has joined, whoever has a membership row
C29_StoredThenDelivered ==
  /\ [](\A p \in Procs :
          req[p].op \in Sends /\ req[p].pc \in BeforeEmit => req[p].out = <<>>)
  /\ [][\A p \in Procs :
          Emitting(p) /\ req'[p] # req[p] =>
            /\ Stored(p)
            /\ Len(req'[p].out) = 1
            /\ req'[p].out[1].name = "message_received"
            /\ req'[p].out[1].aud.to = JoinedTo(req[p].c)
            /\ (req[p].client \in req'[p].out[1].aud.to
                  <=> req[p].client \in JoinedTo(req[p].c))]_vars

\* the sender's socket had not joined the room and did not receive its own
\* message, while a socket of a user without a membership row had joined
\* and received it
C29_Witness ==
  \E p \in Procs, s \in Sessions :
    /\ req[p].op = "sendMessage" /\ req[p].pc = "sm_online"
    /\ Received(p, s) # {}
    /\ sessions[s].auth \notin ParticipantIds(participants, req[p].c)
    /\ sessions[s].auth \in Users
    /\ req[p].client \in Sessions
    /\ Received(p, req[p].client) = {}
    /\ Stored(p)


(***************************************************************************)
(* Avatars (AppController.updateUserAvatar, deleteUserAvatar and           *)
(* FileStorageService.uploadUserAvatar)                                    *)
(***************************************************************************)
\* fileName = `avatar_${fileId}${fileExtension}`
AvatarNames == <<"avatar_1", "avatar_2", "avatar_3", "avatar_4">>

\* path.join(this.localPath, 'avatars', userId, fileName)
AvatarPath(u, name) == <<"avatars", u, name>>

\* fileUrl = `/api/files/avatars/${userId}/${fileName}`
AvatarUrl(u, name) == <<"/api/files/">> \o AvatarPath(u, name)

\* the file a URL serves: the path under /api/files/
ServedFile(url) == Tail(url)

FreshAvatarNames ==
  {i \in 1..MaxAvatars : AvatarNames[i] \notin UsedFileNames}

RunningAvatar(p, op, pc) == req[p].op = op /\ req[p].pc = pc

\* POST api/users/:id/avatar with an image of at most 5 MB
StartUpdateUserAvatar(p, u) ==
  /\ req[p].op = "idle"
  /\ FreshAvatarNames # {}
  /\ req' = [req EXCEPT ![p] =
               [Idle EXCEPT !.op = "updateUserAvatar", !.u = u,
                            !.stored = files, !.pc = "ua_get"]]
  /\ UNCHANGED <<conversations, participants, messages, nextConv, nextMsg, everRow, sessions, online, clock, files, avatars>>

\* currentUser = await getUser(userId); 'Usuario no encontrado'
UpdateUserAvatarGet(p) ==
  /\ RunningAvatar(p, "updateUserAvatar", "ua_get")
  /\ req' = [req EXCEPT ![p] =
               IF GetUser(req[p].u) = {}
               THEN [req[p] EXCEPT !.res = "Usuario no encontrado", !.pc = "done"]
               ELSE [req[p] EXCEPT !.input = avatars[req[p].u],
                                   !.pc = "ua_upload"]]
  /\ UNCHANGED <<conversations, participants, messages, nextConv, nextMsg, everRow, sessions, online, clock, files, avatars>>

\* fileData = await uploadUserAvatar(file, userId): the file is written
\* under avatars/<userId>/
UpdateUserAvatarUpload(p) ==
  /\ RunningAvatar(p, "updateUserAvatar", "ua_upload")
  /\ LET name == AvatarNames[CHOOSE i \in FreshAvatarNames :
                               \A j \in FreshAvatarNames : i <= j]
     IN /\ files' = files \cup {AvatarPath(req[p].u, name)}
        /\ req' = [req EXCEPT ![p].content = AvatarUrl(req[p].u, name),
                              ![p].pc = "ua_update"]
  /\ UNCHANGED <<conversations, participants, messages, nextConv, nextMsg, everRow, sessions, online, clock, avatars>>

\* await updateUser(userId, { avatar: fileData.fileUrl })
UpdateUserAvatarUpdate(p) ==
  /\ RunningAvatar(p, "updateUserAvatar", "ua_update")
  /\ avatars' = [avatars EXCEPT ![req[p].u] = req[p].content]
  /\ req' = [req EXCEPT ![p] =
               IF req[p].input # NoAvatar
               THEN [req[p] EXCEPT !.pc = "ua_delete"]
               ELSE [req[p] EXCEPT !.res = "ok", !.pc = "done"]]
  /\ UNCHANGED <<conversations, participants, messages, nextConv, nextMsg, everRow, sessions, online, clock, files>>

\* try { await deleteFile(currentUser.avatar) } catch (error) {}; success
UpdateUserAvatarDelete(p) ==
  /\ RunningAvatar(p, "updateUserAvatar", "ua_delete")
  /\ \E thrown \in BOOLEAN :
       /\ files' = IF thrown THEN files ELSE DeleteFile(files, req[p].input)
       /\ req' = [req EXCEPT ![p].exc = IF thrown THEN "deleteFile" ELSE "none",
                             ![p].res = "ok", ![p].pc = "done"]
  /\ UNCHANGED <<conversations, participants, messages, nextConv, nextMsg, everRow, sessions, online, clock, avatars>>

\* DELETE api/users/:id/avatar
StartDeleteUserAvatar(p, u) ==
  /\ req[p].op = "idle"
  /\ req' = [req EXCEPT ![p] =
               [Idle EXCEPT !.op = "deleteUserAvatar", !.u = u,
                            !.stored = files, !.pc = "da_get"]]
  /\ UNCHANGED <<conversations, participants, messages, nextConv, nextMsg, everRow, sessions, online, clock, files, avatars>>

\* currentUser = await getUser(userId); 'Usuario no encontrado',
\* 'El usuario no tiene avatar'
DeleteUserAvatarGet(p) ==
  /\ RunningAvatar(p, "deleteUserAvatar", "da_get")
  /\ req' = [req EXCEPT ![p] =
               IF GetUser(req[p].u) = {}
               THEN [req[p] EXCEPT !.res = "Usuario no encontrado", !.pc = "done"]
               ELSE IF avatars[req[p].u] = NoAvatar
               THEN [req[p] EXCEPT !.res = "El usuario no tiene avatar", !.pc = "done"]
               ELSE [req[p] EXCEPT !.input = avatars[req[p].u], !.pc = "da_delete"]]
  /\ UNCHANGED <<conversations, participants, messages, nextConv, nextMsg, everRow, sessions, online, clock, files, avatars>>

\* try { await deleteFile(currentUser.avatar) } catch (error) {}
DeleteUserAvatarDelete(p) ==
  /\ RunningAvatar(p, "deleteUserAvatar", "da_delete")
  /\ \E thrown \in BOOLEAN :
       /\ files' = IF thrown THEN files ELSE DeleteFile(files, req[p].input)
       /\ req' = [req EXCEPT ![p].exc = IF thrown THEN "deleteFile" ELSE "none",
                             ![p].pc = "da_update"]
  /\ UNCHANGED <<conversations, participants, messages, nextConv, nextMsg, everRow, sessions, online, clock, avatars>>

\* await updateUser(userId, { avatar: null })
DeleteUserAvatarUpdate(p) ==
  /\ RunningAvatar(p, "deleteUserAvatar", "da_update")
  /\ avatars' = [avatars EXCEPT ![req[p].u] = NoAvatar]
  /\ req' = [req EXCEPT ![p].res = "ok", ![p].pc = "done"]
  /\ UNCHANGED <<conversations, participants, messages, nextConv, nextMsg, everRow, sessions, online, clock, files>>

\* avatar uploads and deletions for every user id, one request at a time
NextAvatar ==
  \/ \E u \in Users : StartUpdateUserAvatar("p1", u)
  \/ UpdateUserAvatarGet("p1")
  \/ UpdateUserAvatarUpload("p1")
  \/ UpdateUserAvatarUpdate("p1")
  \/ UpdateUserAvatarDelete("p1")
  \/ \E u \in Users : StartDeleteUserAvatar("p1", u)
  \/ DeleteUserAvatarGet("p1")
  \/ DeleteUserAvatarDelete("p1")
  \/ DeleteUserAvatarUpdate("p1")
  \/ Reset("p1")

SpecAvatar == Init /\ [][NextAvatar]_vars

\* the avatar uploads that succeeded for a user who had an avatar
AvatarsReplaced ==
  {p \in Procs : req[p].op = "updateUserAvatar" /\ Finished(p)
                 /\ req[p].res = "ok" /\ req[p].input # NoAvatar}

\* C30: after a successful avatar upload for a user who had an avatar, the
\* user's avatar is the URL of the new file and, unless deleting it failed,
\* the file of the previous avatar is no longer stored; the upload succeeds
\* also when deleting the previous file failed
C30_PreviousAvatarGone ==
  /\ \A p \in AvatarsReplaced :
       /\ avatars[req[p].u] = req[p].content
       /\ ServedFile(req[p].content) \in files
       /\ req[p].exc = "none" => ServedFile(req[p].input) \notin files
  /\ \A p \in Procs :
       RunningAvatar(p, "updateUserAvatar", "done") /\ req[p].exc = "deleteFile"
         => req[p].res = "ok"

(***************************************************************************)
(* Read-status writes beside the membership: a group of the first two      *)
(* users; anyone marks it as read, its creator sends to it, and its other  *)
(* member leaves while the send is in flight                               *)
(***************************************************************************)
\* the participants array of the group: every user but the last
Members == SubSeq(UserOrder, 1, Len(UserOrder) - 1)

NextFrame ==
  \/ /\ conversations = {} /\ req["p2"].op = "idle"
     /\ StartCreateGroupWith("p1", Members, Head(Members))
     /\ UNCHANGED <<conversations, participants, messages, nextConv, nextMsg, everRow, sessions, online, clock, files, avatars>>
  \/ CreateConversationPutStep("p1")
  \/ CreateConversationLoop("p1")
  \/ CreateGroupReturn("p1")
  \/ AddParticipant("p1")
  \/ \E op \in MarkReads, cv \in conversations, u \in Users :
       /\ req["p2"].op = "idle"
       /\ StartMarkAsRead("p1", op, cv.id, u)
  \/ MarkAsReadUpdate("p1")
  \/ MarkAsReadEmit("p1")
  \/ \E op \in Sends, cv \in conversations :
       /\ req["p2"].op = "idle"
       /\ StartSend("p1", op, cv.id, Head(Members))
       /\ UNCHANGED <<conversations, participants, messages, nextConv, nextMsg, everRow, sessions, online, clock, files, avatars>>
  \/ UploadFileStore("p1")
  \/ SendMessageCreate("p1")
  \/ SendMessageConv("p1")
  \/ SendMessageParticipants("p1")
  \/ SendMessageOnline("p1")
  \/ SendMessageLoop("p1")
  \/ SendMessageReturn("p1")
  \/ \E i \in 2..Len(Members) :
       /\ RunningSend("p1", "sm_online")
       /\ StartLeaveGroupFrom("p2", Gone, req["p1"].c, Members[i])
  \/ RemovalConv("p2")
  \/ RemovalBefore("p2")
  \/ RemovalRemoved("p2")
  \/ RemoveParticipant("p2")
  \/ LeaveGroupVerify("p2")
  \/ RemovalAfter("p2")
  \/ RemovalNotify("p2")
  \/ /\ req["p2"].op = "idle" \/ Finished("p2")
     /\ Reset("p1")
  \/ /\ req["p1"].op = "idle"
     /\ Reset("p2")

SpecFrame == Init /\ [][NextFrame]_vars

\* the step is a call of updateParticipantReadStatus that returns
ReadStatusWrite(p) ==
  \/ req[p].op \in MarkReads /\ req[p].pc = "mr_update" /\ req'[p].pc = "mr_emit"
  \/ RunningSend(p, "sm_loop") /\ req[p].list # <<>> /\ req'[p] # req[p]

\* the (conversation, user) pairs that have a membership row
MembershipKeys(tbl) == {<<r.conversationId, r.userId>> : r \in tbl}

\* C31: no read-status write (mark_messages_as_read, REST mark-as-read, the
\* unread-count update of send_message or of a file upload) creates a
\* membership row for a (conversation, user) pair that has none
C31_ReadStatusKeepsMembers ==
  [][\A p \in Procs :
       ReadStatusWrite(p) =>
         MembershipKeys(participants') \subseteq MembershipKeys(participants)]_vars

(***************************************************************************)
(* Two sends to one group in flight together: a group of the first two     *)
(* users, whose creator sends to it from two requests                      *)
(***************************************************************************)
NextLost ==
  \/ /\ conversations = {} /\ req["p2"].op = "idle"
     /\ StartCreateGroupWith("p1", Members, Head(Members))
     /\ UNCHANGED <<conversations, participants, messages, nextConv, nextMsg, everRow, sessions, online, clock, files, avatars>>
  \/ CreateConversationPutStep("p1")
  \/ CreateConversationLoop("p1")
  \/ CreateGroupReturn("p1")
  \/ AddParticipant("p1")
  \/ \E op \in Sends, cv \in conversations :
       /\ req["p2"].op = "idle"
       /\ StartSendWithin("p1", MaxMsgs + 1, Gone, op, cv.id, Head(Members),
                          "text", DefaultText)
       /\ UNCHANGED <<conversations, participants, messages, nextConv, nextMsg, everRow, sessions, online, clock, files, avatars>>
  \/ /\ req["p1"].op \in Sends
     /\ StartSendWithin("p2", MaxMsgs + 1, Gone, "sendMessage", req["p1"].c,
                        Head(Members), "text", DefaultText)
     /\ UNCHANGED <<conversations, participants, messages, nextConv, nextMsg, everRow, sessions, online, clock, files, avatars>>
  \/ UploadFileStore("p1")
  \/ \E p \in Procs :
       \/ SendMessageCreate(p)
       \/ SendMessageConv(p)
       \/ SendMessageParticipants(p)
       \/ SendMessageOnline(p)
       \/ SendMessageLoop(p)
       \/ SendMessageReturn(p)
  \/ /\ req["p2"].op = "idle" \/ Finished("p2")
     /\ Reset("p1")
  \/ /\ req["p1"].op = "idle"
     /\ Reset("p2")

SpecLost == Init /\ [][NextLost]_vars

\* no send_message or upload is in flight
SendsDone == \A p \in Procs : req[p].op \in Sends => Finished(p)

\* the messages of conversation c sent by users other than u
SentByOthers(c, u) ==
  {m \in messages : m.conversationId = c /\ m.senderId # u}

\* C32: when the sends to a conversation have all completed and nobody has
\* marked it as read, each participant's unreadCount is the number of
\* messages the other users sent to it: no increment is lost, whatever the
\* interleaving of the sends
C32_NoLostIncrement ==
  SendsDone =>
    \A r \in participants :
      r.unreadCount = Cardinality(SentByOthers(r.conversationId, r.userId))

(***************************************************************************)
(* Rooms after a removal: the members of a group of the first two users    *)
(* connect and join its room, one of them is removed, and a message is     *)
(* sent to the group once the removal has completed                        *)
(***************************************************************************)
NextEvict ==
  \/ /\ conversations = {} /\ req["p2"].op = "idle"
     /\ StartCreateGroupWith("p1", Members, Head(Members))
     /\ UNCHANGED <<conversations, participants, messages, nextConv, nextMsg, everRow, sessions, online, clock, files, avatars>>
  \/ CreateConversationPutStep("p1")
  \/ CreateConversationLoop("p1")
  \/ CreateGroupReturn("p1")
  \/ AddParticipant("p1")
  \/ \E s \in Sessions, i \in 1..Len(Members) :
       /\ req["p1"].op = "idle"
       /\ ConnectWith("p2", s, Members[i])
  \/ ConnectionOnline("p2")
  \/ \E s \in Sessions, cv \in conversations :
       /\ req["p1"].op = "idle"
       /\ JoinRoomWith("p2", s, cv.id, sessions[s].auth)
  \/ \E cv \in conversations, i \in 1..Len(Members) :
       /\ req["p2"].op = "idle"
       /\ \/ \E s \in AllSockets \cup {Gone} :
               StartLeaveGroupFrom("p1", s, cv.id, Members[i])
          \/ StartRemoveParticipantRestBy("p1", cv.id, Members[i], "none")
  \/ RemoveParticipantRestPart("p1")
  \/ LeaveGroupVerify("p1")
  \/ Removal("p1")
  \/ RemoveParticipant("p1")
  \/ \E cv \in conversations, i \in 1..Len(Members) :
       /\ req["p1"].op \in Removals /\ Finished("p1")
       /\ StartSend("p2", "sendMessage", cv.id, Members[i])
       /\ UNCHANGED <<conversations, participants, messages, nextConv, nextMsg, everRow, sessions, online, clock, files, avatars>>
  \/ SendMessageCreate("p2")
  \/ SendMessageConv("p2")
  \/ SendMessageParticipants("p2")
  \/ SendMessageOnline("p2")
  \/ SendMessageLoop("p2")
  \/ SendMessageReturn("p2")
  \/ /\ req["p2"].op = "idle"
     /\ Reset("p1")
  \/ Reset("p2")

SpecEvict == Init /\ [][NextEvict]_vars

\* the connected sockets whose handshake names user u
SessionsOf(u) == {s \in Sessions : sessions[s].conn /\ sessions[s].auth = u}

\* the requests that emit to the room of conversation c after a removal
RoomEvents == {"message_received", "reply_received", "typing_indicator"}

\* C33: once a removal of user U from group C has completed, no session of
\* U is joined to the room of C, and none receives a message_received,
\* reply_received or typing_indicator emitted for C afterwards
C33_RemovedLeavesRoom ==
  \A p \in Procs :
    RemovalDone(p, "removed") =>
      \A s \in SessionsOf(req[p].u) :
        /\ s \notin ConversationRoom(req[p].c)
        /\ \A q \in Procs \ {p} :
             \A i \in Received(q, s) :
               req[q].out[i].conversationId = req[p].c
                 => req[q].out[i].name \notin RoomEvents

(***************************************************************************)
(* Store calls that fail: the DynamoDB client rejects an awaited call of a *)
(* removal                                                                 *)
(***************************************************************************)
\* the steps of the cascade, inside its try block
CascadeSteps == {"rm_remaining", "rm_loop", "rm_delconv"}

\* the steps that await no store call
NoStoreCall == {"rm_removed", "done"}

\* an exception no catch block of the handler takes: the REST request is
\* answered with an error response; leave_group ends without an emit
Rejected(r) == [r EXCEPT !.res = "error_rejected", !.pc = "done"]

\* the awaited store call throws: inside removeParticipant the exception
\* goes to the caller; in the cascade the catch answers 'Error al eliminar
\* el grupo vacío'; anywhere else no catch takes it
StoreCallThrows(p) ==
  /\ req[p].op \in Removals
  /\ req[p].pc \notin NoStoreCall \/ req[p].call.fn # "none"
  /\ req' = [req EXCEPT ![p] =
               IF req[p].call.fn # "none"
               THEN [req[p] EXCEPT !.call = NoCall, !.exc = "StoreError"]
               ELSE IF req[p].pc \in CascadeSteps
               THEN Fail(req[p], "error_delete_group")
               ELSE Rejected(req[p])]
  /\ UNCHANGED <<conversations, participants, messages, nextConv, nextMsg, everRow, sessions, online, clock, files, avatars>>

\* a group of the first k users; one removal at a time, from a connected
\* socket or over REST, any of whose store calls may throw
NextFault ==
  \/ \E l \in Prefixes :
       /\ conversations = {}
       /\ StartCreateGroupWith("p1", l, Head(l))
       /\ UNCHANGED <<conversations, participants, messages, nextConv, nextMsg, everRow, sessions, online, clock, files, avatars>>
  \/ CreateConversationPutStep("p1")
  \/ CreateConversationLoop("p1")
  \/ CreateGroupReturn("p1")
  \/ AddParticipant("p1")
  \/ \E a \in SvcUsers : ConnectWith("p1", "s1", a)
  \/ ConnectionOnline("p1")
  \/ \E cv \in conversations, u \in SvcUsers :
       \/ StartLeaveGroupFrom("p1", "s1", cv.id, u)
       \/ StartRemoveParticipantRestBy("p1", cv.id, u, "none")
  \/ RemoveParticipantRestPart("p1")
  \/ LeaveGroupVerify("p1")
  \/ Removal("p1")
  \/ RemoveParticipant("p1")
  \/ StoreCallThrows("p1")
  \/ Reset("p1")

SpecFault == Init /\ [][NextFault]_vars

\* a removal that read the conversation and its participants has ended in
\* leave_group_error or in an error response
RemovalFailed(p) ==
  /\ req[p].op \in Removals /\ Finished(p)
  /\ req[p].res \notin Successes
  /\ req[p].op = "leaveGroup" =>
       \E i \in 1..Len(req[p].out) : req[p].out[i].name = "leave_group_error"
  /\ req[p].before # {}

\* C34: when a removal ends in an error, the conversation has the
\* createdBy and the participants it had when the request read them;
\* a removal that fails transfers no ownership
C34_FailedRemovalKeepsGroup ==
  \A p \in Procs :
    RemovalFailed(p) =>
      /\ \E cv \in GetConversation(conversations, req[p].c) :
           cv.createdBy = req[p].conv.createdBy
      /\ GetConversationParticipants(participants, req[p].c) = req[p].before

(***************************************************************************)
(* Removals of different members in flight together: a group of every      *)
(* user, created by the first; two members leave or are removed            *)
(***************************************************************************)
NextOwner ==
  \/ /\ conversations = {} /\ req["p2"].op = "idle"
     /\ StartCreateGroupWith("p1", Everyone, Head(Everyone))
     /\ UNCHANGED <<conversations, participants, messages, nextConv, nextMsg, everRow, sessions, online, clock, files, avatars>>
  \/ CreateConversationPutStep("p1")
  \/ CreateConversationLoop("p1")
  \/ CreateGroupReturn("p1")
  \/ AddParticipant("p1")
  \/ \E cv \in conversations, u \in Users :
       /\ req["p2"].op = "idle"
       /\ \/ StartLeaveGroupFrom("p1", Gone, cv.id, u)
          \/ StartRemoveParticipantRestBy("p1", cv.id, u, "none")
  \/ \E u \in Users \ {req["p1"].u} :
       /\ RemovalInFlight("p1")
       /\ \/ StartLeaveGroupFrom("p2", Gone, req["p1"].c, u)
          \/ StartRemoveParticipantRestBy("p2", req["p1"].c, u, "none")
  \/ \E p \in Procs :
       \/ RemoveParticipantRestPart(p)
       \/ LeaveGroupVerify(p)
       \/ Removal(p)
       \/ RemoveParticipant(p)
  \/ \E p \in Procs : Quiescent /\ Reset(p)

SpecOwner == Init /\ [][NextOwner]_vars

\* C35: whenever no request is in flight and a group has a participant,
\* its createdBy is one of its participants, whatever the interleaving of
\* the removals of different members
C35_CreatorIsParticipant ==
  Quiescent =>
    \A cv \in conversations :
      cv.type = "group" /\ ParticipantIds(participants, cv.id) # {}
        => cv.createdBy \in ParticipantIds(participants, cv.id)

(***************************************************************************)
(* DELETE api/conversations/:id (AppController.deleteConversation), and    *)
(* messages sent to conversations that are deleted or were never created   *)
(***************************************************************************)
\* await deleteConversation(id); 'Conversación eliminada correctamente'
DeleteConversationRest(p, c) ==
  /\ req[p].op = "idle"
  /\ conversations' = DeleteConversation(conversations, c)
  /\ req' = [req EXCEPT ![p] =
               [Idle EXCEPT !.op = "deleteConversation", !.c = c,
                            !.res = "ok", !.pc = "done"]]
  /\ UNCHANGED <<participants, messages, nextConv, nextMsg, everRow, sessions, online, clock, files, avatars>>

\* a group of the first user alone is created; its member sends to it and
\* to an id no conversation has, leaves it, and it is deleted over REST
NextOrphan ==
  \/ /\ conversations = {}
     /\ StartCreateGroupWith("p1", SubSeq(UserOrder, 1, 1), Head(UserOrder))
     /\ UNCHANGED <<conversations, participants, messages, nextConv, nextMsg, everRow, sessions, online, clock, files, avatars>>
  \/ CreateConversationPutStep("p1")
  \/ CreateConversationLoop("p1")
  \/ CreateGroupReturn("p1")
  \/ AddParticipant("p1")
  \/ \E op \in Sends, c \in ConvIds :
       /\ StartSend("p1", op, c, Head(UserOrder))
       /\ UNCHANGED <<conversations, participants, messages, nextConv, nextMsg, everRow, sessions, online, clock, files, avatars>>
  \/ UploadFileStore("p1")
  \/ SendMessageCreate("p1")
  \/ SendMessageConv("p1")
  \/ SendMessageParticipants("p1")
  \/ SendMessageOnline("p1")
  \/ SendMessageReturn("p1")
  \/ \E cv \in conversations : StartLeaveGroupFrom("p1", Gone, cv.id, Head(UserOrder))
  \/ LeaveGroupVerify("p1")
  \/ RemovalConv("p1")
  \/ RemovalBefore("p1")
  \/ RemovalRemoved("p1")
  \/ RemovalAfter("p1")
  \/ RemovalRemaining("p1")
  \/ RemovalDeleteMessages("p1")
  \/ RemovalDeleteConversation("p1")
  \/ RemoveParticipant("p1")
  \/ \E c \in ConvIds : DeleteConversationRest("p1", c)
  \/ Reset("p1")

SpecOrphan == Init /\ [][NextOrphan]_vars

\* C36: whenever no request is in flight, every message and every
\* membership row refers to a conversation that exists
C36_NoOrphanRows ==
  Quiescent =>
    /\ \A m \in messages : GetConversation(conversations, m.conversationId) # {}
    /\ \A r \in participants : GetConversation(conversations, r.conversationId) # {}

(***************************************************************************)
(* edit_message beside delete_message: a text message is sent, and its     *)
(* sender edits it and deletes it from two requests in flight together     *)
(***************************************************************************)
NextEditDelete ==
  \/ \E s \in Sessions : ConnectWith("p1", s, "none")
  \/ /\ req["p2"].op = "idle"
     /\ StartSendAs("p1", "sendMessage", 1, Head(UserOrder), "text", DefaultText)
     /\ UNCHANGED <<conversations, participants, messages, nextConv, nextMsg, everRow, sessions, online, clock, files, avatars>>
  \/ SendMessageCreate("p1")
  \/ SendMessageConv("p1")
  \/ SendMessageParticipants("p1")
  \/ SendMessageOnline("p1")
  \/ SendMessageReturn("p1")
  \/ \E s \in AllSockets, id \in MessageIds :
       /\ req["p2"].op = "idle"
       /\ StartEditMessage("p1", s, id, Head(UserOrder), NewText)
  \/ EditMessage("p1")
  \/ \E s \in AllSockets :
       /\ req["p1"].op = "editMessage"
       /\ StartDeleteMessage("p2", s, req["p1"].mid, Head(UserOrder))
  \/ DeleteMessageGet("p2")
  \/ DeleteMessageScan("p2")
  \/ DeleteMessageDelete("p2")
  \/ DeleteMessageEmit("p2")
  \/ /\ req["p2"].op = "idle" \/ Finished("p1")
     /\ Reset("p1")
  \/ /\ req["p1"].op = "idle"
     /\ Reset("p2")

SpecEditDelete == Init /\ [][NextEditDelete]_vars

\* the delete_message requests that succeeded
DeletesSucceeded ==
  {p \in Procs : req[p].op = "deleteMessage" /\ Finished(p) /\ req[p].res = "ok"}

\* C37: once delete_message has succeeded for a message, getMessage finds
\* no message of that id, whatever a concurrent edit_message of the same
\* message does afterwards
C37_DeletedStaysDeleted ==
  \A p \in DeletesSucceeded : GetMessage(messages, req[p].mid) = {}

\* the same requests, each going on until it has ended: an awaited call
\* returns or throws
SpecFaultFair ==
  /\ SpecFault
  /\ WF_vars(\/ RemoveParticipantRestPart("p1")
             \/ LeaveGroupVerify("p1")
             \/ Removal("p1")
             \/ RemoveParticipant("p1"))

\* the answers of leave_group
LeaveGroupAnswers == {"leave_group_success", "leave_group_error"}

\* the answers the request has emitted to the acting session
Answers(p) ==
  {i \in 1..Len(req[p].out) :
     /\ req[p].out[i].name \in LeaveGroupAnswers
     /\ req[p].out[i].aud.kind = "client"}

\* the leave_group has ended with one answer
Answered(p) ==
  /\ req[p].op = "leaveGroup" /\ Finished(p)
  /\ Cardinality(Answers(p)) = 1

\* C38: every leave_group ends, and it ends with exactly one of
\* leave_group_success and leave_group_error emitted to the acting session,
\* also when one of its store calls throws
C38_LeaveGroupAnswersOnce ==
  /\ [](\A p \in Procs :
          req[p].op = "leaveGroup" =>
            /\ Cardinality(Answers(p)) <= 1
            /\ Finished(p) => Answered(p))
  /\ \A p \in Procs : (req[p].op = "leaveGroup") ~> Answered(p)

(***************************************************************************)
(* send_message from any user: a group of the first two users, a socket of *)
(* a member in its room, and messages sent to it by members and by others  *)
(***************************************************************************)
NextOutsider ==
  \/ /\ conversations = {}
     /\ StartCreateGroupWith("p1", Members, Head(Members))
     /\ UNCHANGED <<conversations, participants, messages, nextConv, nextMsg, everRow, sessions, online, clock, files, avatars>>
  \/ CreateConversationPutStep("p1")
  \/ CreateConversationLoop("p1")
  \/ CreateGroupReturn("p1")
  \/ AddParticipant("p1")
  \/ \E s \in Sessions, i \in 1..Len(Members) : ConnectWith("p1", s, Members[i])
  \/ ConnectionOnline("p1")
  \/ \E s \in Sessions, cv \in conversations :
       JoinRoomWith("p1", s, cv.id, sessions[s].auth)
  \/ \E cv \in conversations, u \in Users :
       /\ StartSend("p1", "sendMessage", cv.id, u)
       /\ UNCHANGED <<conversations, participants, messages, nextConv, nextMsg, everRow, sessions, online, clock, files, avatars>>
  \/ SendMessageCreate("p1")
  \/ SendMessageConv("p1")
  \/ SendMessageParticipants("p1")
  \/ SendMessageOnline("p1")
  \/ SendMessageLoop("p1")
  \/ SendMessageReturn("p1")
  \/ Reset("p1")

SpecOutsider == Init /\ [][NextOutsider]_vars

\* a send_message whose senderId has no membership row in the conversation
\* has run to its end
SentByOutsider(p) ==
  /\ req[p].op = "sendMessage" /\ Finished(p)
  /\ req[p].u \notin ParticipantIds(req[p].before, req[p].c)

\* C39: a send_message from a senderId that is not a participant of the
\* conversation stores no message, emits no message_received and leaves
\* every unreadCount of the conversation as it was
C39_OutsiderSendsNothing ==
  \A p \in Procs :
    SentByOutsider(p) =>
      /\ GetMessage(messages, req[p].mid) = {}
      /\ \A i \in 1..Len(req[p].out) : req[p].out[i].name # "message_received"
      /\ GetConversationParticipants(participants, req[p].c) = req[p].before

====
